---- MODULE Spec2Model ----
(***************************************************************************)
(* The weekly schedule builder of backend/scheduling/smart_scheduler.py    *)
(* (class SmartSchedulerAI) as a state machine.  One behaviour is one call *)
(* of generate_smart_week_schedule on a freshly constructed instance: the  *)
(* persisted records of the facility are chosen in Init, load_data copies  *)
(* them into the instance, _analyze_staffing_needs builds the analysis,    *)
(* _optimize_shift_staffing is called once per (day, shift type) in the    *)
(* order of _create_optimal_schedule, and the return statement builds the  *)
(* result, or the except clause builds the error result.                   *)
(*                                                                         *)
(* Dates are proleptic Gregorian ordinals (date.toordinal(): day 1 is a    *)
(* Monday).  Python values of different types are kept apart by a "kind"   *)
(* tag: a datetime.date and the str made by strftime never compare equal.  *)
(* Scores are Python floats holding integers, modelled as integers; the    *)
(* coverage percentage is modelled as an exact ratio.                      *)
(***************************************************************************)
EXTENDS Integers, Sequences, FiniteSets, TLC

VARIABLES
    db,                    \* the persisted records of the facility (the ORM query results)
    target_date,           \* generate_smart_week_schedule's argument
    staff_data,            \* self.staff_data
    templates_data,        \* self.templates_data
    shifts_data,           \* self.shifts_data
    assignments_data,      \* self.assignments_data
    pc,                    \* position in generate_smart_week_schedule
    week_dates,            \* week_dates of generate_smart_week_schedule
    analysis,              \* analysis of generate_smart_week_schedule
    schedule,              \* schedule of _create_optimal_schedule: the finished days
    day_schedule,          \* day_schedule['shifts'] of the day in progress
    day_staff_assignments, \* day_staff_assignments of the day in progress
    day_index,             \* index into week_dates of the day in progress
    shift_index,           \* index into shift_types of the next shift to process
    available_staff,       \* available_staff of the last _optimize_shift_staffing call
    sort_keys,             \* the sort keys of that call, by staff id
    result,                \* the dictionary generate_smart_week_schedule returns
    engine_db,             \* the persisted records the recommendation engine queries
    adl_data,              \* AIShiftRecommendationEngine.adl_data
    resident_data,         \* AIShiftRecommendationEngine.resident_data
    shift_templates,       \* AIShiftRecommendationEngine.shift_templates
    call,                  \* the last call made on the recommendation engine
    ret,                   \* what that call returned to its caller
    runs                   \* the scheduler runs of the process: the one that executes
                           \* and the instances of the runs that wait

\* the variables of a SmartSchedulerAI instance and of its run
scheduler_vars ==
    <<db, target_date, staff_data, templates_data, shifts_data, assignments_data,
      pc, week_dates, analysis, schedule, day_schedule, day_staff_assignments,
      day_index, shift_index, available_staff, sort_keys, result>>

\* the variables of an AIShiftRecommendationEngine instance and of the calls on it
engine_vars == <<engine_db, adl_data, resident_data, shift_templates, call, ret>>

vars == <<scheduler_vars, engine_vars, runs>>

\* one run in the process, on the one instance there is
OneRun == [current |-> "only", saved |-> <<>>]

(***************************** bounds ***************************************)
MaxStaff == 2
MaxRequired == 1
MaxPersistedAssignments == 12

(***************************** constants ************************************)
DaysPerWeek == 7
ShiftHours == 8

shift_types == <<"day", "swing", "noc">>

(***************************** helpers **************************************)
Min(a, b) == IF a < b THEN a ELSE b
Max(a, b) == IF a > b THEN a ELSE b

Range(s) == {s[i] : i \in 1..Len(s)}

\* x in list
In(x, s) == \E i \in 1..Len(s) : s[i] = x

\* a Python float that is the quotient num / den, kept exact
Ratio(n, d) == [num |-> n, den |-> d]
RatEq(r, k) == r.num = k * r.den
RatLt(r, k) == r.num < k * r.den

\* date.strftime('%Y-%m-%d'): a str
Strftime(date) == [kind |-> "str", ymd |-> date]

\* the datetime.date a DateField column reads as
DateValue(date) == [kind |-> "date", ymd |-> date]

\* date.weekday(): Monday is 0
Weekday(date) == (date - 1) % 7

(***************************** the persisted records ************************)
\* Staff rows as load_data reads them: role, skills, max_hours_per_week of the
\* Staff row and preferred_shifts of its first availability row ([] when none).
StaffProfiles ==
    { [role |-> "cna", skills |-> <<>>, max_hours_per_week |-> 40,
       preferred_shifts |-> <<>>],
      [role |-> "cna", skills |-> <<"meds", "lift">>, max_hours_per_week |-> 32,
       preferred_shifts |-> <<"noc">>],
      [role |-> "rn", skills |-> <<"meds">>, max_hours_per_week |-> 40,
       preferred_shifts |-> <<"day">>] }

\* required_roles of the templates: day shifts take nurses and assistants,
\* swing and night shifts assistants only
RoleLists(st) == IF st = "day" THEN { <<"cna", "rn">> } ELSE { <<"cna">> }

\* the date of the persisted shift: the Tuesday of the target week
PersistedDates == {9}

TargetDates == {11}

\* active staff of the facility, ids 1..n in queryset order
StaffRows ==
    UNION { { [i \in 1..n |-> [id |-> i] @@ f[i]] : f \in [1..n -> StaffProfiles] }
            : n \in 0..MaxStaff }

\* at most one active template per shift type, in start_time order
TemplateOptions(st) ==
    {<<>>} \cup { <<[shift_type |-> st, required_staff_count |-> r, required_roles |-> rr]>>
                  : r \in 0..MaxRequired, rr \in RoleLists(st) }

TemplateRows ==
    { d \o s \o n : d \in TemplateOptions("day"), s \in TemplateOptions("swing"),
                     n \in TemplateOptions("noc") }

ShiftRows == {<<>>} \cup { <<[id |-> 1, date |-> DateValue(d)]>> : d \in PersistedDates }

\* the assignments of the staff in A to shift 1, in staff order
AssignmentRowsOf(n, A) ==
    LET all == [i \in 1..n |-> [staff |-> i, shift |-> 1]]
        Picked(a) == a.staff \in A
    IN  SelectSeq(all, Picked)

DbStates ==
    { [staff |-> st, templates |-> t, shifts |-> sh, assignments |-> a] :
        st \in StaffRows, t \in TemplateRows, sh \in ShiftRows,
        a \in UNION { { AssignmentRowsOf(n, A) : A \in SUBSET (1..n) } : n \in 0..MaxStaff } }

\* rows that respect the foreign keys of StaffAssignment
ValidDb(d) ==
    \A i \in 1..Len(d.assignments) :
        /\ d.assignments[i].staff \in 1..Len(d.staff)
        /\ \E j \in 1..Len(d.shifts) : d.shifts[j].id = d.assignments[i].shift

(***************************** the scheduler's functions ********************)
\* seven dates starting at the target date itself
GetWeekDates_FromTarget(date) ==
    [i \in 1..DaysPerWeek |-> date + (i - 1)]

\* _get_week_dates: Monday..Sunday of the week of target_date
GetWeekDates(date) ==
    LET monday == date - Weekday(date)
    IN  [i \in 1..DaysPerWeek |-> monday + (i - 1)]

\* max(0, min(100, score))
Clamp(score) == Max(0, Min(100, score))

\* _calculate_availability_score
CalculateAvailabilityScore(staff) ==
    LET current_assignments ==
            Cardinality({i \in 1..Len(assignments_data) : assignments_data[i].staff = staff.id})
        s1 == 100 - current_assignments * 10
        s2 == IF Len(staff.preferred_shifts) > 0 THEN s1 + 20 ELSE s1
        s3 == IF Len(staff.skills) > 1 THEN s2 + 15 ELSE s2
    IN  Clamp(s3)

\* _calculate_shift_specific_score with the night-owl test off by one (>= 35)
CalculateShiftSpecificScore_HoursOffByOne(staff, shift_type) ==
    LET b0 == staff.availability_score
        b1 == IF In(shift_type, staff.preferred_shifts) THEN b0 + 25 ELSE b0
        b2 == IF shift_type = "noc"
                THEN (IF ~In("noc", staff.preferred_shifts) THEN b1 - 15 ELSE b1)
                     + (IF staff.max_hours_per_week >= 35 THEN 10 ELSE 0)
              ELSE IF shift_type = "swing"
                THEN (IF staff.max_hours_per_week > 30 THEN b1 + 5 ELSE b1)
              ELSE IF shift_type = "day"
                THEN b1 + 5
              ELSE b1
    IN  Clamp(b2)

\* _calculate_shift_specific_score
CalculateShiftSpecificScore(staff, shift_type) ==
    LET b0 == staff.availability_score
        b1 == IF In(shift_type, staff.preferred_shifts) THEN b0 + 25 ELSE b0
        b2 == IF shift_type = "noc"
                THEN (IF ~In("noc", staff.preferred_shifts) THEN b1 - 15 ELSE b1)
                     + (IF staff.max_hours_per_week > 35 THEN 10 ELSE 0)
              ELSE IF shift_type = "swing"
                THEN (IF staff.max_hours_per_week > 30 THEN b1 + 5 ELSE b1)
              ELSE IF shift_type = "day"
                THEN b1 + 5
              ELSE b1
    IN  Clamp(b2)

\* _is_staff_available_on_date
IsStaffAvailableOnDate(staff_id, date) ==
    LET date_str == Strftime(date)
    IN  ~ \E i \in 1..Len(assignments_data) :
            /\ assignments_data[i].staff = staff_id
            /\ \E j \in 1..Len(shifts_data) :
                  /\ shifts_data[j].id = assignments_data[i].shift
                  /\ \A k \in 1..(j - 1) : shifts_data[k].id # assignments_data[i].shift
                  /\ shifts_data[j].date = date_str

\* _get_available_staff_for_shift without the check of the role
GetAvailableStaffForShift_NoRoleCheck(date, shift_type, required_roles, an, assigned_today) ==
    LET Eligible(staff) ==
            /\ staff.id \notin assigned_today
            /\ IsStaffAvailableOnDate(staff.id, date)
            /\ an.staff_availability[staff.id].current_hours
                  < an.staff_availability[staff.id].max_hours
        Copy(staff) ==
            [availability_score |-> an.staff_availability[staff.id].availability_score]
              @@ staff
        picked == SelectSeq(staff_data, Eligible)
    IN  [i \in 1..Len(picked) |-> Copy(picked[i])]

\* _get_available_staff_for_shift without the check of the day's assignment set
GetAvailableStaffForShift_NoDayCheck(date, shift_type, required_roles, an, assigned_today) ==
    LET Eligible(staff) ==
            /\ In(staff.role, required_roles)
            /\ IsStaffAvailableOnDate(staff.id, date)
            /\ an.staff_availability[staff.id].current_hours
                  < an.staff_availability[staff.id].max_hours
        Copy(staff) ==
            [availability_score |-> an.staff_availability[staff.id].availability_score]
              @@ staff
        picked == SelectSeq(staff_data, Eligible)
    IN  [i \in 1..Len(picked) |-> Copy(picked[i])]

\* _get_available_staff_for_shift with the hours of the week's earlier days
\* counted: one shift of ShiftHours hours for every day since Monday
GetAvailableStaffForShift_HoursAccrue(date, shift_type, required_roles, an, assigned_today) ==
    LET Eligible(staff) ==
            /\ In(staff.role, required_roles)
            /\ staff.id \notin assigned_today
            /\ IsStaffAvailableOnDate(staff.id, date)
            /\ an.staff_availability[staff.id].current_hours + ShiftHours * Weekday(date)
                  < an.staff_availability[staff.id].max_hours
        Copy(staff) ==
            [availability_score |-> an.staff_availability[staff.id].availability_score]
              @@ staff
        picked == SelectSeq(staff_data, Eligible)
    IN  [i \in 1..Len(picked) |-> Copy(picked[i])]

\* _get_available_staff_for_shift: the copies of the eligible staff, in staff_data order
GetAvailableStaffForShift(date, shift_type, required_roles, an, assigned_today) ==
    LET Eligible(staff) ==
            /\ In(staff.role, required_roles)
            /\ staff.id \notin assigned_today
            /\ IsStaffAvailableOnDate(staff.id, date)
            /\ an.staff_availability[staff.id].current_hours
                  < an.staff_availability[staff.id].max_hours
        Copy(staff) ==
            [availability_score |-> an.staff_availability[staff.id].availability_score]
              @@ staff
        picked == SelectSeq(staff_data, Eligible)
    IN  [i \in 1..Len(picked) |-> Copy(picked[i])]

\* list.sort(key=..., reverse=True): stable, equal keys keep their order
RECURSIVE InsertByKey(_, _, _)
InsertByKey(sorted, staff, shift_type) ==
    IF sorted = <<>> THEN <<staff>>
    ELSE IF CalculateShiftSpecificScore(Head(sorted), shift_type)
              >= CalculateShiftSpecificScore(staff, shift_type)
         THEN <<Head(sorted)>> \o InsertByKey(Tail(sorted), staff, shift_type)
         ELSE <<staff>> \o sorted

\* a descending sort made of an ascending sort and a reversal: ties reversed
RECURSIVE SortByShiftScore_TiesReversed(_, _)
SortByShiftScore_TiesReversed(list, shift_type) ==
    IF list = <<>> THEN <<>>
    ELSE InsertByKey(SortByShiftScore_TiesReversed(Tail(list), shift_type),
                     Head(list), shift_type)

RECURSIVE SortByShiftScore(_, _)
SortByShiftScore(list, shift_type) ==
    IF list = <<>> THEN <<>>
    ELSE InsertByKey(SortByShiftScore(SubSeq(list, 1, Len(list) - 1), shift_type),
                     list[Len(list)], shift_type)

\* next((t for t in self.templates_data if t.get('shift_type') == shift_type), None)
TemplateIndex(shift_type) ==
    LET hits == {i \in 1..Len(templates_data) : templates_data[i].shift_type = shift_type}
    IN  IF hits = {} THEN 0 ELSE CHOOSE i \in hits : \A j \in hits : i <= j

\* sum of f[i] over a sequence of numbers
RECURSIVE SumSeq(_)
SumSeq(q) == IF q = <<>> THEN 0 ELSE Head(q) + SumSeq(Tail(q))

RECURSIVE Concat(_)
Concat(qq) == IF qq = <<>> THEN <<>> ELSE Head(qq) \o Concat(Tail(qq))

\* the assignments of a schedule in the order the report loops visit them:
\* days in order, shifts in insertion order (day, swing, noc), staff in list order
DayEntries(day) ==
    Concat([k \in 1..Len(shift_types) |->
              IF shift_types[k] \in DOMAIN day.shifts
              THEN [i \in 1..Len(day.shifts[shift_types[k]].assigned_staff) |->
                      [staff_id |-> day.shifts[shift_types[k]].assigned_staff[i].staff_id,
                       role |-> day.shifts[shift_types[k]].assigned_staff[i].role,
                       date |-> day.date,
                       shift_type |-> shift_types[k]]]
              ELSE <<>>])

AllEntries(sched) == Concat([d \in 1..Len(sched) |-> DayEntries(sched[d])])

\* _count_resolved_conflicts
CountResolvedConflicts(sched) ==
    LET e == AllEntries(sched)
    IN  Cardinality({i \in 1..Len(e) :
            \E j \in 1..(i - 1) : e[j].staff_id = e[i].staff_id /\ e[j].date = e[i].date})

\* a set of numbers as the increasing sequence
RECURSIVE Ascending(_)
Ascending(S) ==
    IF S = {} THEN <<>>
    ELSE LET m == CHOOSE x \in S : \A y \in S : x <= y
         IN  <<m>> \o Ascending(S \ {m})

\* _resolve_scheduling_conflicts: one double_booking record for every staff
\* member and date with more than one assignment, staff in order of first
\* appearance and dates in order of first appearance for that staff member
ResolveSchedulingConflicts(sched) ==
    LET e == AllEntries(sched)
        Same(i, j) == e[j].staff_id = e[i].staff_id /\ e[j].date = e[i].date
        FirstOfStaff(i) == CHOOSE j \in 1..Len(e) :
                              /\ e[j].staff_id = e[i].staff_id
                              /\ \A k \in 1..(j - 1) : e[k].staff_id # e[i].staff_id
        \* first entries of a (staff, date) pair that has further entries
        firsts == {i \in 1..Len(e) :
                      /\ \A j \in 1..(i - 1) : ~Same(i, j)
                      /\ \E j \in (i + 1)..Len(e) : Same(i, j)}
        order == Ascending({FirstOfStaff(i) * (Len(e) + 1) + i : i \in firsts})
        At(n) == order[n] % (Len(e) + 1)
    IN  [n \in 1..Len(order) |->
            [type |-> "double_booking",
             staff_id |-> e[At(n)].staff_id,
             date |-> e[At(n)].date,
             shifts |-> LET hits == SelectSeq([j \in 1..Len(e) |-> j],
                                              LAMBDA j : Same(At(n), j))
                        IN  [m \in 1..Len(hits) |-> e[hits[m]].shift_type]]]

\* the entries of the schedule with status 'optimized'
OptimizedShifts(sched) ==
    Concat([d \in 1..Len(sched) |->
              SelectSeq([k \in 1..Len(shift_types) |-> sched[d].shifts[shift_types[k]]],
                        LAMBDA sh : sh.status = "optimized")])

\* _calculate_staff_utilization, for total_staff > 0
CalculateStaffUtilization(sched) ==
    LET e == AllEntries(sched)
        ids == {e[i].staff_id : i \in 1..Len(e)}
        roles == {e[i].role : i \in 1..Len(e)}
    IN  [total_staff |-> Len(staff_data),
         assigned_staff |-> Cardinality(ids),
         utilization_rate |-> Ratio(Cardinality(ids) * 100, Len(staff_data)),
         role_breakdown |->
            [r \in roles |-> Cardinality({i \in 1..Len(e) : e[i].role = r})],
         hours_distribution |->
            [id \in ids |-> ShiftHours * Cardinality({i \in 1..Len(e) : e[i].staff_id = id})]]

\* _generate_schedule_reasoning: the figures the sentences are built from
GenerateScheduleReasoning(sched) ==
    LET e == AllEntries(sched)
        ids == {e[i].staff_id : i \in 1..Len(e)}
        opt == OptimizedShifts(sched)
    IN  [total_shifts |-> SumSeq([d \in 1..Len(sched) |-> Cardinality(DOMAIN sched[d].shifts)]),
         covered_shifts |->
            Cardinality({i \in 1..Len(opt) : ~RatLt(opt[i].coverage_percentage, 100)}),
         utilization_rate |->
            IF Len(staff_data) > 0 THEN Ratio(Cardinality(ids) * 100, Len(staff_data))
            ELSE Ratio(0, 1),
         conflicts_resolved |-> CountResolvedConflicts(sched)]

\* exact fractions in lowest terms, and their sum
RECURSIVE GCD(_, _)
GCD(a, b) == IF b = 0 THEN a ELSE GCD(b, a % b)

RatNorm(r) ==
    LET g == GCD(IF r.num < 0 THEN -r.num ELSE r.num, r.den)
    IN  Ratio(r.num \div g, r.den \div g)

RatAdd(a, b) == RatNorm(Ratio(a.num * b.den + b.num * a.den, a.den * b.den))

\* the sum of q[lo..hi], by halves
RECURSIVE RatSumRange(_, _, _)
RatSumRange(q, lo, hi) ==
    IF lo > hi THEN Ratio(0, 1)
    ELSE IF lo = hi THEN RatNorm(q[lo])
    ELSE LET mid == (lo + hi) \div 2
         IN  RatAdd(RatSumRange(q, lo, mid), RatSumRange(q, mid + 1, hi))

RatSum(q) == RatSumRange(q, 1, Len(q))

\* _calculate_balance_score.  The score is max(0, 1 - std_dev / mean_hours);
\* the model keeps the square of std_dev / mean_hours, variance / mean_hours^2,
\* as an exact fraction.  The two early returns of 0 (nobody assigned, and
\* mean_hours = 0) are the score of a squared ratio of 1.
CalculateBalanceScore(sched) ==
    LET opt == OptimizedShifts(sched)
        \* (shift, position) of every assigned_staff entry of an optimized shift
        slots == UNION { {<<i, k>> : k \in 1..Len(opt[i].assigned_staff)} :
                           i \in 1..Len(opt) }
        StaffAt(e) == opt[e[1]].assigned_staff[e[2]].staff_id
        ids == {StaffAt(e) : e \in slots}
        staff_hours ==
            [id \in ids |-> ShiftHours * Cardinality({e \in slots : StaffAt(e) = id})]
        n == Cardinality(ids)
        total == ShiftHours * Cardinality(slots)
        squares == SumSeq([i \in 1..n |->
                      staff_hours[Ascending(ids)[i]] * staff_hours[Ascending(ids)[i]]])
    IN  IF n = 0 \/ total = 0
        THEN [cv_squared |-> Ratio(1, 1)]
        ELSE [cv_squared |-> RatNorm(Ratio(n * squares - total * total, total * total))]

\* the balance score is 0: std_dev / mean_hours >= 1, or an early return of 0
BalanceIsZero(b) == b.cv_squared.num >= b.cv_squared.den

\* the balance score is 1: std_dev = 0 with somebody assigned
BalanceIsOne(b) == b.cv_squared.num = 0

\* the three summands of _calculate_schedule_confidence (total_shifts > 0)
ConfidenceComponents(sched) ==
    LET opt == OptimizedShifts(sched)
        total_shifts == Len(opt)
        covered_shifts ==
            Cardinality({i \in 1..Len(opt) : ~RatLt(opt[i].coverage_percentage, 100)})
        staff_utilization ==
            RatSum([i \in 1..Len(opt) |-> opt[i].coverage_percentage])
    IN  [coverage_score |-> RatNorm(Ratio(covered_shifts * 40, total_shifts)),
         utilization_score |->
            RatNorm(Ratio(staff_utilization.num * 30, staff_utilization.den * total_shifts)),
         balance_score |-> CalculateBalanceScore(sched)]

\* _calculate_schedule_confidence: min(100, max(0, int(sum of the three))).
\* The sum is never negative, so int() is the floor: the result is the largest
\* c in 0..100 with coverage_score + utilization_score + 30 * balance >= c,
\* decided exactly by squaring 30 * std_dev / mean_hours.
CalculateScheduleConfidence(sched) ==
    IF sched = <<>> THEN 0
    ELSE IF Len(OptimizedShifts(sched)) = 0 THEN 0
    ELSE LET parts == ConfidenceComponents(sched)
             base == RatAdd(parts.coverage_score, parts.utilization_score)
             cv == parts.balance_score.cv_squared
             AtLeast(c) ==
                 LET rest == base.num - c * base.den
                 IN  IF BalanceIsZero(parts.balance_score)
                     THEN rest >= 0
                     ELSE /\ rest + 30 * base.den >= 0
                          /\ 900 * cv.num * base.den * base.den
                               <= cv.den * (rest + 30 * base.den) * (rest + 30 * base.den)
         IN  IF ~RatLt(base, 100) THEN 100
             ELSE CHOOSE c \in 0..100 :
                     /\ AtLeast(c)
                     /\ \A c2 \in (c + 1)..100 : ~AtLeast(c2)

\* the dictionary of the except clause of generate_smart_week_schedule
ErrorResult(e) ==
    [success |-> FALSE, error |-> e, schedule |-> <<>>, confidence_score |-> 0]

(***************************** the state machine ****************************)
\* An attribute of the engine is None, modelled as <<>>, or a list, modelled as
\* the one-element sequence <<list>>.
\* no recommendation engine has been constructed
NoEngine ==
    /\ engine_db = [residents |-> <<>>, adls |-> <<>>, templates |-> <<>>]
    /\ adl_data = <<>>
    /\ resident_data = <<>>
    /\ shift_templates = <<>>
    /\ call = [name |-> "none"]
    /\ ret = <<>>

\* SmartSchedulerAI.__init__: the four data attributes are None
Init ==
    /\ db \in {d \in DbStates : ValidDb(d)}
    /\ target_date \in TargetDates
    /\ staff_data = "None"
    /\ templates_data = "None"
    /\ shifts_data = "None"
    /\ assignments_data = "None"
    /\ pc = "start"
    /\ week_dates = <<>>
    /\ analysis = <<>>
    /\ schedule = <<>>
    /\ day_schedule = <<>>
    /\ day_staff_assignments = {}
    /\ day_index = 0
    /\ shift_index = 0
    /\ available_staff = <<>>
    /\ sort_keys = <<>>
    /\ result = <<>>
    /\ NoEngine
    /\ runs = OneRun

\* load_data: the four queries succeed (the except branch, taken when a query
\* raises, leaves four empty lists and is the case of an empty facility)
LoadData ==
    /\ pc = "start"
    /\ staff_data' = db.staff
    /\ templates_data' = db.templates
    /\ shifts_data' = db.shifts
    /\ assignments_data' = db.assignments
    /\ pc' = "analyze"
    /\ UNCHANGED <<db, target_date, week_dates, analysis, schedule, day_schedule,
                   day_staff_assignments, day_index, shift_index, available_staff,
                   sort_keys, result>>
    /\ UNCHANGED <<engine_vars, runs>>

\* the analysis dictionary of _analyze_staffing_needs
StaffingAnalysis ==
    LET types == {templates_data[i].shift_type : i \in 1..Len(templates_data)}
        roles == UNION {Range(templates_data[i].required_roles) : i \in 1..Len(templates_data)}
        ids == {staff_data[i].id : i \in 1..Len(staff_data)}
        Row(id) == staff_data[CHOOSE i \in 1..Len(staff_data) :
                                /\ staff_data[i].id = id
                                /\ \A j \in (i + 1)..Len(staff_data) : staff_data[j].id # id]
    IN  [shift_coverage |->
            [t \in types |->
                SumSeq([i \in 1..Len(templates_data) |->
                          IF templates_data[i].shift_type = t
                          THEN templates_data[i].required_staff_count * DaysPerWeek ELSE 0])],
         role_requirements |->
            [r \in roles |->
                SumSeq([i \in 1..Len(templates_data) |->
                          Cardinality({k \in 1..Len(templates_data[i].required_roles) :
                                          templates_data[i].required_roles[k] = r})
                            * templates_data[i].required_staff_count * DaysPerWeek])],
         staff_availability |->
            [id \in ids |->
                [role |-> Row(id).role,
                 skills |-> Row(id).skills,
                 max_hours |-> Row(id).max_hours_per_week,
                 current_hours |-> 0,
                 preferred_shifts |-> Row(id).preferred_shifts,
                 availability_score |-> CalculateAvailabilityScore(Row(id))]]]

\* generate_smart_week_schedule up to the call of _create_optimal_schedule:
\* _get_week_dates, _analyze_staffing_needs, and the start of the day loop
AnalyzeStaffingNeeds ==
    /\ pc = "analyze"
    /\ week_dates' = GetWeekDates(target_date)
    /\ analysis' = StaffingAnalysis
    /\ schedule' = <<>>
    /\ day_schedule' = <<>>
    /\ day_staff_assignments' = {}
    /\ day_index' = 1
    /\ shift_index' = 1
    /\ pc' = "schedule"
    /\ UNCHANGED <<db, target_date, staff_data, templates_data, shifts_data,
                   assignments_data, available_staff, sort_keys, result>>
    /\ UNCHANGED <<engine_vars, runs>>

\* the locals of one call of _optimize_shift_staffing for a shift type with a template
ShiftStaffing(date, shift_type, an, assigned_today) ==
    LET template == templates_data[TemplateIndex(shift_type)]
        required_staff == template.required_staff_count
        sorted == SortByShiftScore(
                      GetAvailableStaffForShift(date, shift_type, template.required_roles,
                                                an, assigned_today),
                      shift_type)
        n == Min(required_staff, Len(sorted))
    IN  [required_staff |-> required_staff,
         keys |-> [i \in 1..Len(sorted) |->
                     [id |-> sorted[i].id,
                      score |-> CalculateShiftSpecificScore(sorted[i], shift_type)]],
         assigned_staff |-> [i \in 1..n |-> [staff_id |-> sorted[i].id,
                                              role |-> sorted[i].role]],
         \* staff_member['availability_score'] -= 30 on the copies in the list
         available_staff |->
            [i \in 1..Len(sorted) |->
                IF i <= n
                THEN [sorted[i] EXCEPT !.availability_score = @ - 30]
                ELSE sorted[i]]]

\* self.staff_data after a call that put the dictionaries themselves, not
\* copies, in its list: the score and its deduction are written into the rows
StaffDataAfterCall_NoCopy(st) ==
    [i \in 1..Len(staff_data) |->
        IF \E k \in 1..Len(st.available_staff) : st.available_staff[k].id = staff_data[i].id
        THEN st.available_staff[CHOOSE k \in 1..Len(st.available_staff) :
                                    st.available_staff[k].id = staff_data[i].id]
        ELSE staff_data[i]]

\* self.staff_data after one call of _optimize_shift_staffing: the list of
\* candidates holds staff.copy() dictionaries, so the rows keep their values
StaffDataAfterCall(st) ==
    staff_data

\* the dictionary with the coverage taken over the candidates, not the assigned
ShiftEntry_CandidateCoverage(st) ==
    [status |-> "optimized",
     required_staff |-> st.required_staff,
     assigned_staff |-> st.assigned_staff,
     coverage_percentage |-> Ratio(Len(st.available_staff) * 100, st.required_staff)]

\* the dictionary _optimize_shift_staffing returns (required_staff > 0)
ShiftEntry(st) ==
    [status |-> "optimized",
     required_staff |-> st.required_staff,
     assigned_staff |-> st.assigned_staff,
     coverage_percentage |-> Ratio(Len(st.assigned_staff) * 100, st.required_staff)]

\* a no-template dictionary that nevertheless names the first staff member
NoTemplateEntry_AssignsFirst ==
    [status |-> "no_template",
     assigned_staff |->
        IF Len(staff_data) > 0
        THEN <<[staff_id |-> staff_data[1].id, role |-> staff_data[1].role]>>
        ELSE <<>>]

\* the dictionary _optimize_shift_staffing returns when no template has the type
NoTemplateEntry ==
    [status |-> "no_template", assigned_staff |-> <<>>]

\* one pass of the inner loop of _create_optimal_schedule: the call of
\* _optimize_shift_staffing for week_dates[day_index] and shift_types[shift_index],
\* the bookkeeping of the day, and the append of a finished day
OptimizeShiftStaffing ==
    /\ pc = "schedule"
    /\ LET date == week_dates[day_index]
           shift_type == shift_types[shift_index]
           templated == TemplateIndex(shift_type) # 0
           st == ShiftStaffing(date, shift_type, analysis, day_staff_assignments)
       IN  IF templated /\ st.required_staff = 0
           THEN \* len(assigned_staff) / required_staff raises ZeroDivisionError
                /\ available_staff' = st.available_staff
                /\ sort_keys' = st.keys
                /\ result' = ErrorResult("division by zero")
                /\ pc' = "done"
                /\ UNCHANGED <<schedule, day_schedule, day_staff_assignments,
                               day_index, shift_index>>
           ELSE LET entry == IF templated THEN ShiftEntry(st) ELSE NoTemplateEntry
                    shifts == (shift_type :> entry) @@ day_schedule
                    last_shift == shift_index = Len(shift_types)
                IN  /\ available_staff' = IF templated THEN st.available_staff ELSE <<>>
                    /\ sort_keys' = IF templated THEN st.keys ELSE <<>>
                    /\ IF last_shift
                       THEN /\ schedule' = Append(schedule, [date |-> Strftime(date),
                                                             shifts |-> shifts])
                            /\ day_schedule' = <<>>
                            /\ day_staff_assignments' = {}
                            /\ day_index' = day_index + 1
                            /\ shift_index' = 1
                            /\ pc' = IF day_index = Len(week_dates) THEN "return"
                                     ELSE "schedule"
                       ELSE /\ schedule' = schedule
                            /\ day_schedule' = shifts
                            /\ day_staff_assignments' =
                                  day_staff_assignments
                                    \cup {entry.assigned_staff[i].staff_id :
                                            i \in 1..Len(entry.assigned_staff)}
                            /\ day_index' = day_index
                            /\ shift_index' = shift_index + 1
                            /\ pc' = "schedule"
                    /\ result' = result
    /\ staff_data' = IF TemplateIndex(shift_types[shift_index]) # 0
                     THEN StaffDataAfterCall(ShiftStaffing(week_dates[day_index],
                                                           shift_types[shift_index],
                                                           analysis, day_staff_assignments))
                     ELSE staff_data
    /\ UNCHANGED <<db, target_date, templates_data, shifts_data,
                   assignments_data, week_dates, analysis>>
    /\ UNCHANGED <<engine_vars, runs>>

\* the return statement of generate_smart_week_schedule, or its except clause.
\* The dictionary is built in source order: the reasoning first, then the
\* utilization, whose division raises for a facility without staff.
ReturnResult ==
    /\ pc = "return"
    /\ result' =
          IF Len(staff_data) = 0
          THEN \* _calculate_staff_utilization divides by total_staff
               ErrorResult("division by zero")
          ELSE [success |-> TRUE,
                schedule |-> schedule,
                confidence_score |-> CalculateScheduleConfidence(schedule),
                reasoning |-> GenerateScheduleReasoning(schedule),
                staff_utilization |-> CalculateStaffUtilization(schedule),
                conflict_resolution |-> ResolveSchedulingConflicts(schedule),
                week_dates |-> [i \in 1..Len(week_dates) |-> Strftime(week_dates[i])]]
    /\ pc' = "done"
    /\ UNCHANGED <<db, target_date, staff_data, templates_data, shifts_data,
                   assignments_data, week_dates, analysis, schedule, day_schedule,
                   day_staff_assignments, day_index, shift_index, available_staff,
                   sort_keys>>
    /\ UNCHANGED <<engine_vars, runs>>

Next == LoadData \/ AnalyzeStaffingNeeds \/ OptimizeShiftStaffing \/ ReturnResult

Spec == Init /\ [][Next]_vars

(***************************** what the claims speak of *********************)
\* the day in progress as a day of the schedule
DayInProgress ==
    IF DOMAIN day_schedule = {} THEN <<>>
    ELSE <<[date |-> Strftime(week_dates[day_index]), shifts |-> day_schedule]>>

\* the days built so far, the day in progress included
DaysSoFar == schedule \o DayInProgress

\* every assignment made so far in this run
EntriesSoFar == AllEntries(DaysSoFar)

\* number of shifts staff member id has been assigned so far in this run
AssignedCount(id) ==
    Cardinality({i \in 1..Len(EntriesSoFar) : EntriesSoFar[i].staff_id = id})

StaffIds == {staff_data[i].id : i \in 1..Len(staff_data)}
StaffRow(id) == staff_data[CHOOSE i \in 1..Len(staff_data) : staff_data[i].id = id]
PositionOf(id) == CHOOSE i \in 1..Len(staff_data) : staff_data[i].id = id

Analyzed == pc \in {"schedule", "return", "done"}

\* the shift entries recorded so far, with their day and shift type
RecordedShifts ==
    UNION { { [day |-> d, shift_type |-> t, entry |-> DaysSoFar[d].shifts[t]] :
                t \in DOMAIN DaysSoFar[d].shifts } : d \in 1..Len(DaysSoFar) }

\* a week schedule in which no staff id occurs twice on one date
ConflictFree(sched) ==
    LET e == AllEntries(sched)
    IN  \A i, j \in 1..Len(e) :
            (i # j /\ e[i].date = e[j].date) => e[i].staff_id # e[j].staff_id

(***************************** C1 *******************************************)
\* C1: in the schedule under construction and in every returned schedule, a
\* staff id is in the assigned_staff list of at most one shift of a date (and
\* at most once in it); so the returned conflict_resolution list is empty and
\* _count_resolved_conflicts, as reported in the reasoning, is 0.
C1_NoDoubleBooking ==
    /\ ConflictFree(DaysSoFar)
    /\ (pc = "done" /\ result.success) =>
          /\ ConflictFree(result.schedule)
          /\ result.conflict_resolution = <<>>
          /\ result.reasoning.conflicts_resolved = 0

\* a returned schedule with a day on which a CNA works the day shift while the
\* swing shift, which takes CNAs, stays short of staff: the exclusion acted
C1_Witness ==
    /\ pc = "done" /\ result.success
    /\ \E d \in 1..Len(result.schedule) :
          LET sh == result.schedule[d].shifts
          IN  /\ sh["day"].status = "optimized" /\ sh["swing"].status = "optimized"
              /\ \E i \in 1..Len(sh["day"].assigned_staff) :
                     sh["day"].assigned_staff[i].role = "cna"
              /\ RatLt(sh["swing"].coverage_percentage, 100)

(***************************** C2 *******************************************)
\* C2: the availability score that _get_available_staff_for_shift reads for a
\* staff member is 30 lower for every shift that staff member has been assigned
\* earlier in the run.
C2_ScoreReflectsDeductions ==
    Analyzed =>
        \A id \in StaffIds :
            analysis.staff_availability[id].availability_score
              = CalculateAvailabilityScore(StaffRow(id)) - 30 * AssignedCount(id)

(***************************** C3 *******************************************)
\* C3: a staff member is assigned a shift only while the hours assigned to them
\* in this run (8 per shift) are below their maximum weekly hours.
C3_WeeklyHoursRespected ==
    Analyzed =>
        \A id \in StaffIds :
            AssignedCount(id) >= 1 =>
                ShiftHours * (AssignedCount(id) - 1) < StaffRow(id).max_hours_per_week

(***************************** C4 *******************************************)
\* staff member id has a persisted assignment to a shift on calendar date d
PersistedOn(id, d) ==
    \E i \in 1..Len(assignments_data), j \in 1..Len(shifts_data) :
        /\ assignments_data[i].staff = id
        /\ shifts_data[j].id = assignments_data[i].shift
        /\ shifts_data[j].date.ymd = d

\* C4: nobody is assigned to a shift on a date on which they already have a
\* persisted assignment.
C4_PersistedBookingRespected ==
    \A i \in 1..Len(EntriesSoFar) :
        ~PersistedOn(EntriesSoFar[i].staff_id, EntriesSoFar[i].date.ymd)

(***************************** C5 *******************************************)
\* C5: every recorded shift with status 'optimized' has coverage_percentage
\* equal to len(assigned_staff) / required_staff_count * 100, with the
\* required_staff_count of the template of its shift type.
C5_CoverageExact ==
    \A r \in RecordedShifts :
        r.entry.status = "optimized" =>
            LET required == templates_data[TemplateIndex(r.shift_type)].required_staff_count
                cp == r.entry.coverage_percentage
            IN  /\ required > 0 /\ cp.den > 0
                /\ r.entry.required_staff = required
                /\ cp.num * required = Len(r.entry.assigned_staff) * 100 * cp.den

\* a recorded optimized shift with staff assigned next to one left uncovered
C5_Witness ==
    /\ \E r \in RecordedShifts :
          r.entry.status = "optimized" /\ Len(r.entry.assigned_staff) >= 1
    /\ \E r \in RecordedShifts :
          r.entry.status = "optimized" /\ RatLt(r.entry.coverage_percentage, 100)

(***************************** C6 *******************************************)
\* the shift _optimize_shift_staffing has just returned the entry of
JustProcessed == pc \in {"schedule", "return"} /\ Len(DaysSoFar) > 0

LastShift ==
    IF DOMAIN day_schedule # {}
    THEN [day |-> day_index, shift_type |-> shift_types[shift_index - 1],
          entry |-> day_schedule[shift_types[shift_index - 1]]]
    ELSE [day |-> Len(schedule), shift_type |-> shift_types[Len(shift_types)],
          entry |-> schedule[Len(schedule)].shifts[shift_types[Len(shift_types)]]]

\* C6: for a templated shift the candidates are ranked by descending
\* shift-specific score, equal scores in staff_data order, and the assigned
\* staff are the first min(required_staff_count, number of candidates) of them,
\* in that order; the assignment is a function of the inputs.
C6_TopCandidatesAssigned ==
    (JustProcessed /\ LastShift.entry.status = "optimized") =>
        LET e == LastShift.entry
            t == LastShift.shift_type
            required == templates_data[TemplateIndex(t)].required_staff_count
            n == Min(required, Len(sort_keys))
            ScoreOf(id) ==
                CalculateShiftSpecificScore(
                    [availability_score |->
                        analysis.staff_availability[id].availability_score]
                      @@ StaffRow(id), t)
        IN  /\ \A i \in 1..Len(sort_keys) : sort_keys[i].score = ScoreOf(sort_keys[i].id)
            /\ \A i, j \in 1..Len(sort_keys) :
                  i < j =>
                    \/ sort_keys[i].score > sort_keys[j].score
                    \/ /\ sort_keys[i].score = sort_keys[j].score
                       /\ PositionOf(sort_keys[i].id) < PositionOf(sort_keys[j].id)
            /\ Len(e.assigned_staff) = n
            /\ \A i \in 1..n : e.assigned_staff[i].staff_id = sort_keys[i].id

\* two candidates tie for a shift that takes only one of them
C6_Witness ==
    /\ JustProcessed /\ LastShift.entry.status = "optimized"
    /\ Len(sort_keys) >= 2
    /\ sort_keys[1].score = sort_keys[2].score
    /\ Len(LastShift.entry.assigned_staff) = 1

(***************************** C7 *******************************************)
\* C7: every assigned staff member has a role that is in the required_roles of
\* the template of the shift type, and it is the role of their staff record.
C7_AssignedRoleRequired ==
    \A r \in RecordedShifts :
        \A i \in 1..Len(r.entry.assigned_staff) :
            LET a == r.entry.assigned_staff[i]
            IN  /\ In(a.role, templates_data[TemplateIndex(r.shift_type)].required_roles)
                /\ StaffRow(a.staff_id).role = a.role

\* a day on which a CNA is assigned while a swing shift, which takes no nurses,
\* stays short of staff although a nurse is free that day
C7_Witness ==
    \E r \in RecordedShifts :
        /\ r.shift_type = "swing" /\ r.entry.status = "optimized"
        /\ RatLt(r.entry.coverage_percentage, 100)
        /\ LET e == DayEntries(DaysSoFar[r.day])
           IN  /\ \E i \in 1..Len(e) : e[i].role = "cna"
               /\ \E id \in StaffIds :
                     /\ StaffRow(id).role = "rn"
                     /\ \A i \in 1..Len(e) : e[i].staff_id # id

(***************************** C8 *******************************************)
\* C8: whenever a templated shift is processed with more candidates than its
\* required_staff_count, the call records the shift with exactly that many
\* assigned staff and coverage 100, and leaves the availability score of
\* everyone it did not assign as it was.
C8_SurplusStaffing ==
    [][ LET shift_type == shift_types[shift_index]
            template == templates_data[TemplateIndex(shift_type)]
            candidates ==
                GetAvailableStaffForShift(week_dates[day_index], shift_type,
                                          template.required_roles, analysis,
                                          day_staff_assignments)
        IN  ( /\ pc = "schedule"
              /\ TemplateIndex(shift_type) # 0
              /\ Len(candidates) > template.required_staff_count )
            => /\ pc' \in {"schedule", "return"}
               /\ LastShift'.entry.status = "optimized"
               /\ Len(LastShift'.entry.assigned_staff) = template.required_staff_count
               /\ RatEq(LastShift'.entry.coverage_percentage, 100)
               /\ \A id \in StaffIds :
                     (\A i \in 1..Len(LastShift'.entry.assigned_staff) :
                         LastShift'.entry.assigned_staff[i].staff_id # id)
                     => analysis'.staff_availability[id].availability_score
                          = analysis.staff_availability[id].availability_score
      ]_vars

(***************************** C10 ******************************************)
\* no template asks for a headcount of zero
NoZeroHeadcount ==
    \A i \in 1..Len(templates_data) : templates_data[i].required_staff_count > 0

\* the shift type has a template that asks for more staff than the facility
\* has in its required roles, so fewer are eligible than required on every day
Shortage(shift_type) ==
    /\ TemplateIndex(shift_type) # 0
    /\ LET template == templates_data[TemplateIndex(shift_type)]
       IN  template.required_staff_count
             > Cardinality({id \in StaffIds : In(StaffRow(id).role, template.required_roles)})

\* C10: when a shift type is short of eligible staff, the facility having no
\* active staff included, the run ends with success = True and records that
\* shift on every day with status 'optimized' and coverage below 100.  Stated
\* for the inputs in which every template requires at least one staff member.
C10_ShortageIsNotAnError ==
    (pc = "done" /\ NoZeroHeadcount) =>
        \A k \in 1..Len(shift_types) :
            Shortage(shift_types[k]) =>
                /\ result.success
                /\ \A d \in 1..Len(result.schedule) :
                      /\ result.schedule[d].shifts[shift_types[k]].status = "optimized"
                      /\ RatLt(result.schedule[d].shifts[shift_types[k]].coverage_percentage,
                               100)

(***************************** the scoring functions alone ******************)
\* One staff member with a chosen number of persisted assignments is scored for
\* each shift type: _analyze_staffing_needs computes the base score, and the
\* sort key of _optimize_shift_staffing is computed on the copy that
\* _get_available_staff_for_shift makes.
ScoreSkills == { <<>>, <<"meds">>, <<"meds", "lift">> }
ScoreHours == {30, 31, 35, 36}
ScorePreferences == { <<>>, <<"day">>, <<"noc">>, <<"swing", "noc">> }

ScoreDb(sk, h, pr, n) ==
    [staff |-> <<[id |-> 1, role |-> "cna", skills |-> sk, max_hours_per_week |-> h,
                  preferred_shifts |-> pr]>>,
     templates |-> <<>>,
     shifts |-> [k \in 1..n |-> [id |-> k, date |-> DateValue(k)]],
     assignments |-> [k \in 1..n |-> [staff |-> 1, shift |-> k]]]

InitScore ==
    /\ db \in { ScoreDb(sk, h, pr, n) : sk \in ScoreSkills, h \in ScoreHours,
                                         pr \in ScorePreferences,
                                         n \in 0..MaxPersistedAssignments }
    /\ target_date \in TargetDates
    /\ staff_data = "None"
    /\ templates_data = "None"
    /\ shifts_data = "None"
    /\ assignments_data = "None"
    /\ pc = "start"
    /\ week_dates = <<>>
    /\ analysis = <<>>
    /\ schedule = <<>>
    /\ day_schedule = <<>>
    /\ day_staff_assignments = {}
    /\ day_index = 0
    /\ shift_index = 0
    /\ available_staff = <<>>
    /\ sort_keys = <<>>
    /\ result = <<>>
    /\ NoEngine
    /\ runs = OneRun

\* _analyze_staffing_needs, for its availability scores
ScoreAnalyze ==
    /\ pc = "analyze"
    /\ analysis' = StaffingAnalysis
    /\ pc' = "score"
    /\ UNCHANGED <<db, target_date, staff_data, templates_data, shifts_data,
                   assignments_data, week_dates, schedule, day_schedule,
                   day_staff_assignments, day_index, shift_index, available_staff,
                   sort_keys, result>>
    /\ UNCHANGED <<engine_vars, runs>>

\* the copy of line 328-329 and its sort key of line 284, for one shift type
ScoreShift ==
    /\ pc = "score"
    /\ \E k \in 1..Len(shift_types) :
          LET copy == [availability_score |->
                          analysis.staff_availability[staff_data[1].id].availability_score]
                        @@ staff_data[1]
          IN  /\ shift_index' = k
              /\ available_staff' = <<copy>>
              /\ sort_keys' = <<[id |-> copy.id,
                                 score |-> CalculateShiftSpecificScore(copy, shift_types[k])]>>
    /\ pc' = "scored"
    /\ UNCHANGED <<db, target_date, staff_data, templates_data, shifts_data,
                   assignments_data, week_dates, analysis, schedule, day_schedule,
                   day_staff_assignments, day_index, result>>
    /\ UNCHANGED <<engine_vars, runs>>

NextScore == LoadData \/ ScoreAnalyze \/ ScoreShift

SpecScore == InitScore /\ [][NextScore]_vars

(***************************** C9 *******************************************)
\* the terms of the score as the claim lists them, for the scored staff member
C9_BaseSum ==
    100 - 10 * Len(assignments_data)
        + (IF staff_data[1].preferred_shifts # <<>> THEN 20 ELSE 0)
        + (IF Len(staff_data[1].skills) > 1 THEN 15 ELSE 0)

C9_Adjustment ==
    LET t == shift_types[shift_index]
        preferred == Range(staff_data[1].preferred_shifts)
        hours == staff_data[1].max_hours_per_week
    IN  (IF t \in preferred THEN 25 ELSE 0)
        + (IF t = "noc" THEN (IF "noc" \in preferred THEN 0 ELSE -15)
                               + (IF hours > 35 THEN 10 ELSE 0)
           ELSE IF t = "swing" THEN (IF hours > 30 THEN 5 ELSE 0)
           ELSE 5)

C9_Bounded(x) == IF x < 0 THEN 0 ELSE IF x > 100 THEN 100 ELSE x

\* C9 as stated: the ranking score is the sum of the base terms and the
\* shift-specific adjustment.
C9_ScoreIsPlainSum ==
    pc = "scored" => sort_keys[1].score = C9_BaseSum + C9_Adjustment

\* C9 as amended: the base terms are summed and held to [0, 100], the
\* adjustment is added to that, and the result is held to [0, 100] again.
C9_ScoreIsClampedSum ==
    pc = "scored" =>
        /\ analysis.staff_availability[1].availability_score = C9_Bounded(C9_BaseSum)
        /\ sort_keys[1].score = C9_Bounded(C9_Bounded(C9_BaseSum) + C9_Adjustment)

\* a night-shift score strictly inside the range, reached through a base sum
\* over 100, a penalty for the unpreferred night shift and the hours bonus
C9_Witness ==
    /\ pc = "scored"
    /\ shift_types[shift_index] = "noc"
    /\ C9_BaseSum > 100
    /\ staff_data[1].max_hours_per_week > 35
    /\ sort_keys[1].score = 95

(***************************** C11 ******************************************)
\* no demand for the week: every shift type is without a template or has a
\* template whose required_staff_count is 0
ZeroDemand ==
    \A k \in 1..Len(shift_types) :
        \/ TemplateIndex(shift_types[k]) = 0
        \/ templates_data[TemplateIndex(shift_types[k])].required_staff_count = 0

\* C11: a run over a week without demand ends with success = True and a
\* schedule of 7 days in which every shift is 'no_template' or has required
\* headcount 0, and nobody is assigned.  Stated for a facility that has at
\* least one active staff member.
C11_ZeroDemandCompletes ==
    (pc = "done" /\ ZeroDemand /\ Len(staff_data) > 0) =>
        /\ result.success
        /\ Len(result.schedule) = DaysPerWeek
        /\ \A d \in 1..Len(result.schedule) : \A k \in 1..Len(shift_types) :
              LET entry == result.schedule[d].shifts[shift_types[k]]
              IN  /\ entry.status = "no_template" \/ entry.required_staff = 0
                  /\ entry.assigned_staff = <<>>

(***************************** C12 ******************************************)
\* no active template has the shift type
Untemplated(shift_type) ==
    \A i \in 1..Len(templates_data) : templates_data[i].shift_type # shift_type

\* C12: a pass of the builder over a (day, shift type) without a template
\* records status 'no_template' with an empty assigned_staff list for exactly
\* that day and shift type, leaves every entry recorded before as it was (so
\* nobody is assigned), leaves the day's assignment set as
\* it was (emptied only when the day is finished), and goes on to the next
\* shift, the next day, or the end of a complete week.
C12_NoTemplateSkipped ==
    [][ (pc = "schedule" /\ Untemplated(shift_types[shift_index]))
        => /\ LastShift'.day = day_index
           /\ LastShift'.shift_type = shift_types[shift_index]
           /\ LastShift'.entry = [status |-> "no_template", assigned_staff |-> <<>>]
           /\ RecordedShifts' = RecordedShifts \cup {LastShift'}
           /\ IF shift_index < Len(shift_types)
              THEN /\ day_staff_assignments' = day_staff_assignments
                   /\ pc' = "schedule"
                   /\ day_index' = day_index /\ shift_index' = shift_index + 1
              ELSE /\ day_staff_assignments' = {}
                   /\ Len(schedule') = day_index
                   /\ IF day_index < DaysPerWeek
                      THEN pc' = "schedule" /\ day_index' = day_index + 1 /\ shift_index' = 1
                      ELSE pc' = "return"
      ]_vars

\* a finished week in which a day shift without a template was skipped and
\* the swing shift of the same day was staffed after it
C12_Witness ==
    /\ pc = "return"
    /\ Len(schedule) = DaysPerWeek
    /\ Untemplated("day")
    /\ \A d \in 1..Len(schedule) :
          /\ schedule[d].shifts["day"].status = "no_template"
          /\ schedule[d].shifts["swing"].status = "optimized"
          /\ Len(schedule[d].shifts["swing"].assigned_staff) > 0

(***************************** C14 ******************************************)
\* C14: in a successful run with at least one templated shift the confidence
\* is made of a coverage part of at most 40 points, a mean-coverage part of at
\* most 30 points and a balance part of at most 30 points, so a confidence of
\* 100 is returned only when every templated shift is fully covered, the mean
\* coverage part is 30 and the balance score is 1.
C14_ComponentsCapped ==
    (pc = "done" /\ result.success /\ Len(OptimizedShifts(result.schedule)) > 0) =>
        LET parts == ConfidenceComponents(result.schedule)
        IN  /\ parts.coverage_score.num <= 40 * parts.coverage_score.den
            /\ parts.utilization_score.num <= 30 * parts.utilization_score.den
            /\ result.confidence_score = 100 =>
                  /\ RatEq(parts.coverage_score, 40)
                  /\ RatEq(parts.utilization_score, 30)
                  /\ BalanceIsOne(parts.balance_score)

(***************************** C15 ******************************************)
\* C15: the balance score of a returned schedule is max(0, 1 - stddev / mean)
\* of the hours per assigned staff member (8 per assigned shift, as reported in
\* hours_distribution), and it is 0 when nobody or only one staff member is
\* assigned.
C15_BalanceScore ==
    (pc = "done" /\ result.success) =>
        LET hours == result.staff_utilization.hours_distribution
            ids == Ascending(DOMAIN hours)
            n == Len(ids)
            total == SumSeq([i \in 1..n |-> hours[ids[i]]])
            squares == SumSeq([i \in 1..n |-> hours[ids[i]] * hours[ids[i]]])
            b == CalculateBalanceScore(result.schedule)
        IN  /\ n <= 1 => BalanceIsZero(b)
            /\ n >= 2 =>
                  b.cv_squared.num * (total * total)
                    = b.cv_squared.den * (n * squares - total * total)

(***************************************************************************)
(* The recommendation engine of backend/scheduling/ai_recommendations.py   *)
(* (class AIShiftRecommendationEngine).  Care hours are Python floats made *)
(* from whole minutes (minutes / 60.0); the model keeps them as exact      *)
(* fractions, so the rounding error of the float operations is left out.   *)
(***************************************************************************)
(***************************** bounds of the engine inputs ******************)
MaxResidentCount == 21
MaxCareQuarterHours == 120

\* resident counts and care hours the formulas are applied to
ResidentCounts == 0..MaxResidentCount
CareMinutes == {15 * k : k \in 0..MaxCareQuarterHours}

(***************************** arithmetic on exact fractions ****************)
RatMul(r, k) == RatNorm(Ratio(r.num * k, r.den))
RatDiv(r, k) == RatNorm(Ratio(r.num, r.den * k))
RatLe(a, b) == a.num * b.den <= b.num * a.den
RatMin(a, b) == IF RatLe(a, b) THEN a ELSE b
RatMax(a, b) == IF RatLe(a, b) THEN b ELSE a

\* minutes / 60.0
Hours(minutes) == RatNorm(Ratio(minutes, 60))

\* Python's round(x) of a non-negative x: to the nearest integer, a half to
\* the even neighbour
RoundHalfEven(x) ==
    LET floor == x.num \div x.den
        twice == 2 * (x.num % x.den)
    IN  IF twice < x.den THEN floor
        ELSE IF twice > x.den THEN floor + 1
        ELSE IF floor % 2 = 0 THEN floor ELSE floor + 1

\* Python's round(x, 2) of a non-negative x, as a fraction
Round2(x) == RatNorm(Ratio(RoundHalfEven(RatMul(x, 100)), 100))

(***************************** the confidence formulas **********************)
\* the sum of _calculate_weekly_confidence without the two caps and the clamp
CalculateWeeklyConfidence_Unbounded(care_hours, resident_count) ==
    LET resident_factor == RatMul(Ratio(resident_count, 20), 20)
        hours_factor == RatMul(RatDiv(care_hours, 8), 20)
    IN  RoundHalfEven(RatAdd(Ratio(60, 1), RatAdd(resident_factor, hours_factor)))

\* _calculate_weekly_confidence (its except clause returns 60; nothing in the
\* try block raises for numbers)
CalculateWeeklyConfidence(care_hours, resident_count) ==
    LET base_confidence == Ratio(60, 1)
        resident_factor == RatMul(RatMin(Ratio(resident_count, 20), Ratio(1, 1)), 20)
        hours_factor == RatMul(RatMin(RatDiv(care_hours, 8), Ratio(1, 1)), 20)
        total_confidence == RatAdd(base_confidence, RatAdd(resident_factor, hours_factor))
    IN  Min(100, Max(60, RoundHalfEven(total_confidence)))

\* _calculate_confidence_score (its except clause returns 0.6)
CalculateConfidenceScore(reqs) ==
    LET base_confidence == Ratio(6, 10)
        data_quality ==
            RatDiv(RatMul(RatMin(Ratio(reqs.resident_count, 15), Ratio(1, 1)), 2), 10)
        care_consistency ==
            RatDiv(RatMul(RatMin(RatDiv(reqs.total_care_hours, 8), Ratio(1, 1)), 2), 10)
        total_confidence == RatAdd(base_confidence, RatAdd(data_quality, care_consistency))
    IN  RatMin(Ratio(1, 1), RatMax(Ratio(6, 10), Round2(total_confidence)))

(***************************** the base headcount ***************************)
\* max(1, round(h / 8.0)) with the half rounded up
BaseStaff_HalfUp(total_hours) ==
    LET x == RatDiv(total_hours, 8)
        floor == x.num \div x.den
    IN  Max(1, IF 2 * (x.num % x.den) < x.den THEN floor ELSE floor + 1)

\* base_staff of calculate_staffing_requirements
BaseStaff(total_hours) == Max(1, RoundHalfEven(RatDiv(total_hours, 8)))

\* base_staff of recommend_shifts_for_week
WeeklyBaseStaff(care_hours) == Max(1, RoundHalfEven(RatDiv(care_hours, 8)))

\* staff_needed of generate_shift_template_recommendations
StaffNeeded(care_hours) == Max(1, RoundHalfEven(RatDiv(care_hours, 8)))

(***************************** the formulas alone ***************************)
\* no scheduler has been constructed
NoScheduler ==
    /\ db = [staff |-> <<>>, templates |-> <<>>, shifts |-> <<>>, assignments |-> <<>>]
    /\ target_date \in TargetDates
    /\ staff_data = "None"
    /\ templates_data = "None"
    /\ shifts_data = "None"
    /\ assignments_data = "None"
    /\ pc = "none"
    /\ week_dates = <<>>
    /\ analysis = <<>>
    /\ schedule = <<>>
    /\ day_schedule = <<>>
    /\ day_staff_assignments = {}
    /\ day_index = 0
    /\ shift_index = 0
    /\ available_staff = <<>>
    /\ sort_keys = <<>>
    /\ result = <<>>

\* AIShiftRecommendationEngine.__init__ for a facility with the given tables
EngineConstructed(tables) ==
    /\ engine_db = tables
    /\ adl_data = <<>>
    /\ resident_data = <<>>
    /\ shift_templates = <<>>
    /\ call = [name |-> "__init__"]
    /\ ret = <<>>

\* One behaviour of the engine is one request: the engine is constructed, the
\* data are loaded or not, and one function is called.
AwaitingCall == call.name \in {"__init__", "load_data"}

\* an engine on which no data has been loaded and no call made
InitFormulas ==
    /\ NoScheduler
    /\ EngineConstructed([residents |-> <<>>, adls |-> <<>>, templates |-> <<>>])
    /\ runs = OneRun

\* _calculate_weekly_confidence(care_hours, resident_count)
WeeklyConfidenceCall ==
    /\ AwaitingCall
    /\ \E m \in CareMinutes, n \in ResidentCounts :
          /\ call' = [name |-> "_calculate_weekly_confidence",
                      care_hours |-> Hours(m), resident_count |-> n]
          /\ ret' = CalculateWeeklyConfidence(Hours(m), n)
    /\ UNCHANGED <<engine_db, adl_data, resident_data, shift_templates>>
    /\ UNCHANGED <<scheduler_vars, runs>>

\* _calculate_confidence_score(reqs), reqs as calculate_staffing_requirements
\* builds it: total_care_hours is rounded to two places
ConfidenceScoreCall ==
    /\ AwaitingCall
    /\ \E m \in CareMinutes, n \in ResidentCounts :
          LET reqs == [total_care_hours |-> Round2(Hours(m)), resident_count |-> n]
          IN  /\ call' = [name |-> "_calculate_confidence_score", reqs |-> reqs]
              /\ ret' = CalculateConfidenceScore(reqs)
    /\ UNCHANGED <<engine_db, adl_data, resident_data, shift_templates>>
    /\ UNCHANGED <<scheduler_vars, runs>>

\* the base headcount of the three functions for one amount of care hours;
\* the two weekly functions compute it only for care_hours > 0
BaseStaffCall ==
    /\ AwaitingCall
    /\ \E m \in CareMinutes :
          /\ call' = [name |-> "base_staff", care_hours |-> Hours(m)]
          /\ ret' = [calculate_staffing_requirements |-> BaseStaff(Hours(m)),
                     recommend_shifts_for_week |->
                        IF m > 0 THEN <<WeeklyBaseStaff(Hours(m))>> ELSE <<>>,
                     generate_shift_template_recommendations |->
                        IF m > 0 THEN <<StaffNeeded(Hours(m))>> ELSE <<>>]
    /\ UNCHANGED <<engine_db, adl_data, resident_data, shift_templates>>
    /\ UNCHANGED <<scheduler_vars, runs>>

NextFormulas == WeeklyConfidenceCall \/ ConfidenceScoreCall \/ BaseStaffCall

SpecFormulas == InitFormulas /\ [][NextFormulas]_vars

(***************************** C16 ******************************************)
\* C16: _calculate_weekly_confidence returns an integer from 60 to 100 and
\* _calculate_confidence_score a value from 0.6 to 1.0, for every non-negative
\* care_hours and resident_count; for zero care hours and zero residents they
\* return exactly 60 and exactly 0.6.
C16_ConfidenceBounds ==
    /\ call.name = "_calculate_weekly_confidence" =>
          /\ ret \in 60..100
          /\ (call.care_hours.num = 0 /\ call.resident_count = 0) => ret = 60
    /\ call.name = "_calculate_confidence_score" =>
          /\ RatLe(Ratio(6, 10), ret) /\ RatLe(ret, Ratio(1, 1))
          /\ (call.reqs.total_care_hours.num = 0 /\ call.reqs.resident_count = 0)
                => ret = Ratio(3, 5)

\* the single-shift confidence of no care hours and no residents, at its floor
C16_Witness ==
    /\ call.name = "_calculate_confidence_score"
    /\ call.reqs.total_care_hours.num = 0 /\ call.reqs.resident_count = 0
    /\ ret = Ratio(3, 5)

(***************************** C18 ******************************************)
\* C18: the base headcount for h care hours is max(1, round(h / 8)) with a
\* half rounded to the even neighbour; it is not below the headcount of any
\* smaller h, it is 1 for h = 8 and 2 for h = 17, and the three functions
\* that compute it agree wherever they compute it.
C18_BaseHeadcount ==
    call.name = "base_staff" =>
        LET h == call.care_hours
            r == ret.calculate_staffing_requirements
            \* 2 * |h / 8 - r| compared with 1, on the common denominator
            twice_gap == IF h.num >= 8 * r * h.den
                         THEN 2 * (h.num - 8 * r * h.den)
                         ELSE 2 * (8 * r * h.den - h.num)
            unit == 8 * h.den
        IN  /\ r >= 1
            /\ r > 1 => twice_gap <= unit
            /\ r = 1 => h.num * 2 <= 3 * unit
            /\ (twice_gap = unit /\ 2 * h.num >= unit * 3) => r % 2 = 0
            /\ \A m \in CareMinutes : RatLe(Hours(m), h) => BaseStaff(Hours(m)) <= r
            /\ h = Ratio(8, 1) => r = 1
            /\ h = Ratio(17, 1) => r = 2
            /\ h.num > 0 =>
                  /\ ret.recommend_shifts_for_week = <<r>>
                  /\ ret.generate_shift_template_recommendations = <<r>>

\* 20 care hours: 2.5 shifts of work, rounded down to the even 2, the same
\* headcount as for 17 hours
C18_Witness ==
    /\ call.name = "base_staff"
    /\ call.care_hours = Ratio(20, 1)
    /\ ret.calculate_staffing_requirements = 2
    /\ ret.recommend_shifts_for_week = <<2>>

(***************************** the data of the engine ***********************)
MaxResidents == 2

\* A key of a total_shift_times dictionary is a str, modelled as the sequence
\* of its characters so that "abbrev in shift_key" is a substring test.
Key_ResidentTotalMonShift1Time ==
    <<"R", "e", "s", "i", "d", "e", "n", "t", "T", "o", "t", "a", "l", "M", "o", "n", "S", "h", "i", "f", "t", "1", "T", "i", "m", "e">>
Key_ResidentTotalTuesShift2Time ==
    <<"R", "e", "s", "i", "d", "e", "n", "t", "T", "o", "t", "a", "l", "T", "u", "e", "s", "S", "h", "i", "f", "t", "2", "T", "i", "m", "e">>
Key_ResidentTotalSunShift3Time ==
    <<"R", "e", "s", "i", "d", "e", "n", "t", "T", "o", "t", "a", "l", "S", "u", "n", "S", "h", "i", "f", "t", "3", "T", "i", "m", "e">>
Key_MonShift1Time == <<"M", "o", "n", "S", "h", "i", "f", "t", "1", "T", "i", "m", "e">>
Key_Shift2Time == <<"S", "h", "i", "f", "t", "2", "T", "i", "m", "e">>
Key_MonTotal == <<"M", "o", "n", "T", "o", "t", "a", "l">>
Key_Total == <<"T", "o", "t", "a", "l">>

\* abbrev in shift_key
Contains(shift_key, abbrev) ==
    \E i \in 1..(Len(shift_key) - Len(abbrev) + 1) :
        SubSeq(shift_key, i, i + Len(abbrev) - 1) = abbrev

\* day_mapping and shift_mapping, in the order the dictionaries are written
day_mapping ==
    << [abbrev |-> <<"M", "o", "n">>, name |-> "Monday"],
       [abbrev |-> <<"T", "u", "e", "s">>, name |-> "Tuesday"],
       [abbrev |-> <<"W", "e", "d">>, name |-> "Wednesday"],
       [abbrev |-> <<"T", "h", "u", "r", "s">>, name |-> "Thursday"],
       [abbrev |-> <<"F", "r", "i">>, name |-> "Friday"],
       [abbrev |-> <<"S", "a", "t">>, name |-> "Saturday"],
       [abbrev |-> <<"S", "u", "n">>, name |-> "Sunday"] >>

shift_mapping ==
    << [abbrev |-> <<"S", "h", "i", "f", "t", "1">>, name |-> "day"],
       [abbrev |-> <<"S", "h", "i", "f", "t", "2">>, name |-> "swing"],
       [abbrev |-> <<"S", "h", "i", "f", "t", "3">>, name |-> "noc"] >>

days == <<"Monday", "Tuesday", "Wednesday", "Thursday", "Friday", "Saturday", "Sunday">>

\* the loop "for abbrev, name in mapping.items(): if abbrev in shift_key: ...
\* break": the name of the first abbreviation found in the key, <<>> for None
FirstMatch(mapping, shift_key) ==
    LET hits == {i \in 1..Len(mapping) : Contains(shift_key, mapping[i].abbrev)}
    IN  IF hits = {} THEN <<>>
        ELSE <<mapping[CHOOSE i \in hits : \A j \in hits : i <= j].name>>

\* A value of the dictionary is what the JSON column holds: a number of
\* minutes, [int |-> n], or a str, [str |-> s].
Minutes(n) == [int |-> n]

\* total_shift_times of a resident, as its items() in insertion order
ShiftTimeMaps ==
    [ none      |-> <<>>,
      decodable |-> << [key |-> Key_ResidentTotalMonShift1Time, minutes |-> Minutes(480)],
                       [key |-> Key_ResidentTotalTuesShift2Time, minutes |-> Minutes(60)],
                       [key |-> Key_ResidentTotalSunShift3Time, minutes |-> Minutes(0)] >>,
      heavy     |-> << [key |-> Key_ResidentTotalMonShift1Time, minutes |-> Minutes(4800)] >>,
      undecoded |-> << [key |-> Key_ResidentTotalMonShift1Time, minutes |-> Minutes(120)],
                       [key |-> Key_Total, minutes |-> Minutes(120)] >>,
      partial   |-> << [key |-> Key_MonTotal, minutes |-> Minutes(60)],
                       [key |-> Key_Shift2Time, minutes |-> Minutes(30)],
                       [key |-> Key_ResidentTotalSunShift3Time, minutes |-> Minutes(-15)] >>,
      text      |-> << [key |-> Key_ResidentTotalMonShift1Time, minutes |-> [str |-> "120"]] >> ]

\* the ADL rows of a resident: question_text (numbered), total_hours and the
\* row's own per_day_shift_times dictionary
AdlRows(count, total_hours, per_day_shift_times) ==
    [q \in 1..count |-> [question_text |-> q, total_hours |-> total_hours,
                         per_day_shift_times |-> per_day_shift_times]]

\* per_day_shift_times of an ADL row, as its items() in insertion order
PerDayShiftTimes ==
    [ none    |-> <<>>,
      monday  |-> << [key |-> Key_MonShift1Time, minutes |-> Minutes(60)] >> ]

\* the residents a facility is made of: shift-time map, ADL rows, section
ResidentProfiles ==
    { [total_shift_times |-> ShiftTimeMaps.decodable, adls |-> AdlRows(1, 1, PerDayShiftTimes.none),
       facility_section_id |-> 1],
      [total_shift_times |-> ShiftTimeMaps.heavy, adls |-> AdlRows(10, 10, PerDayShiftTimes.none),
       facility_section_id |-> 1],
      [total_shift_times |-> ShiftTimeMaps.undecoded, adls |-> AdlRows(1, 1, PerDayShiftTimes.none),
       facility_section_id |-> 2],
      [total_shift_times |-> ShiftTimeMaps.none, adls |-> AdlRows(1, 1, PerDayShiftTimes.none),
       facility_section_id |-> 2],
      [total_shift_times |-> ShiftTimeMaps.partial, adls |-> AdlRows(0, 0, PerDayShiftTimes.none),
       facility_section_id |-> 1],
      [total_shift_times |-> ShiftTimeMaps.text, adls |-> AdlRows(1, 1, PerDayShiftTimes.none),
       facility_section_id |-> 2],
      [total_shift_times |-> ShiftTimeMaps.none,
       adls |-> AdlRows(1, 1, PerDayShiftTimes.monday),
       facility_section_id |-> 1] }

\* the active shift templates of the facility, as the engine reads them
EngineTemplateRows ==
    { <<>>,
      << [id |-> 1, shift_type |-> "day"] >>,
      << [id |-> 1, shift_type |-> "day"], [id |-> 2, shift_type |-> "swing"],
         [id |-> 3, shift_type |-> "noc"] >> }

\* the tables of a facility with the residents ps[1], ps[2], ...
EngineDb(ps, templates) ==
    [residents |->
        [i \in 1..Len(ps) |->
            [id |-> i, facility_section_id |-> ps[i].facility_section_id,
             total_shift_times |-> ps[i].total_shift_times]],
     adls |->
        Concat([i \in 1..Len(ps) |->
                  [k \in 1..Len(ps[i].adls) |->
                      [resident_id |-> i,
                       question_text |-> ps[i].adls[k].question_text,
                       total_hours |-> ps[i].adls[k].total_hours,
                       per_day_shift_times |-> ps[i].adls[k].per_day_shift_times]]]),
     templates |-> templates]

EngineDbStates ==
    { EngineDb(ps, t) :
        ps \in UNION { [1..n -> ResidentProfiles] : n \in 0..MaxResidents },
        t \in EngineTemplateRows }

\* section_id of a call: <<>> for None, <<s>> for the section s
SectionIds == { <<>>, <<1>>, <<2>> }

(***************************** outcomes of a call ***************************)
\* a call ends by returning a value or by raising an exception
Return(value) == [returned |-> value]
Raise(error) == [raised |-> error]
Raised(outcome) == "raised" \in DOMAIN outcome

\* a function body without its except clause: the exception reaches the caller
Except_Reraise(outcome, default) == outcome

\* try: <body> except Exception as e: ... return default
Except(outcome, default) == IF Raised(outcome) THEN Return(default) ELSE outcome

(***************************** the analysis of one resident *****************)
IsStr(minutes) == "str" \in DOMAIN minutes

\* "minutes and minutes > 0" for a number
Positive(minutes) == minutes.int # 0 /\ minutes.int > 0

\* the items a loop gets through before a str value makes "minutes > 0" raise
Readable(items) ==
    LET bad == {i \in 1..Len(items) : IsStr(items[i].minutes)}
    IN  IF bad = {} THEN items
        ELSE SubSeq(items, 1, (CHOOSE i \in bad : \A j \in bad : i <= j) - 1)

\* the minutes of the items whose key is one of keys, 0 for the others
CountedMinutes(items, keys) ==
    SumSeq([i \in 1..Len(items) |->
              IF Positive(items[i].minutes) /\ items[i].key \in keys
              THEN items[i].minutes.int ELSE 0])

\* the keys of a dictionary
KeysOf(items) == {items[i].key : i \in 1..Len(items)}

\* total_care_hours of analyze_adl_patterns (lines 134-139), for int values
TotalCareHours(total_shift_times) ==
    Hours(CountedMinutes(total_shift_times, KeysOf(total_shift_times)))

\* _analyze_shift_time_distribution: its own except clause keeps what was
\* added before the failure
AnalyzeShiftTimeDistribution(total_shift_times) ==
    [t \in Range(shift_types) |->
        Hours(CountedMinutes(Readable(total_shift_times),
                             {key \in KeysOf(total_shift_times) :
                                 FirstMatch(shift_mapping, key) = <<t>>}))]

\* the aggregation with "break" where the code has "continue": nothing is
\* counted after a key that has no minutes or does not decode
AnalyzeDailyCarePatterns_StopAtBadKey(total_shift_times) ==
    LET bad == {i \in 1..Len(total_shift_times) :
                   \/ ~Positive(total_shift_times[i].minutes)
                   \/ FirstMatch(day_mapping, total_shift_times[i].key) = <<>>
                   \/ FirstMatch(shift_mapping, total_shift_times[i].key) = <<>>}
        kept == IF bad = {} THEN total_shift_times
                ELSE SubSeq(total_shift_times, 1,
                            (CHOOSE i \in bad : \A j \in bad : i <= j) - 1)
    IN  [d \in Range(days) |->
            [t \in Range(shift_types) |->
                Hours(CountedMinutes(kept,
                                     {key \in KeysOf(kept) :
                                         /\ FirstMatch(day_mapping, key) = <<d>>
                                         /\ FirstMatch(shift_mapping, key) = <<t>>}))]]

\* _analyze_daily_care_patterns: a key counts for a cell when it decodes to a
\* day and to a shift
AnalyzeDailyCarePatterns(total_shift_times) ==
    [d \in Range(days) |->
        [t \in Range(shift_types) |->
            Hours(CountedMinutes(Readable(total_shift_times),
                                 {key \in KeysOf(total_shift_times) :
                                     /\ FirstMatch(day_mapping, key) = <<d>>
                                     /\ FirstMatch(shift_mapping, key) = <<t>>}))]]

\* the weighted sum with none of its four caps
CalculateAcuityScore_Uncapped(resident_adls, total_care_hours) ==
    LET unique_adls ==
            Cardinality({resident_adls[i].question_text : i \in 1..Len(resident_adls)})
        avg_frequency ==
            Ratio(SumSeq([i \in 1..Len(resident_adls) |-> resident_adls[i].total_hours]),
                  Len(resident_adls))
    IN  RatAdd(RatDiv(RatMul(RatDiv(total_care_hours, 8), 4), 10),
               RatAdd(RatDiv(RatMul(Ratio(unique_adls, 5), 3), 10),
                      RatDiv(RatMul(RatDiv(avg_frequency, 2), 3), 10)))

\* _calculate_acuity_score for a resident with at least one ADL row (its
\* except clause, which returns 5.0, is not reached for numeric columns)
CalculateAcuityScore(resident_adls, total_care_hours) ==
    LET hours_score == RatMin(RatDiv(total_care_hours, 8), Ratio(10, 1))
        unique_adls ==
            Cardinality({resident_adls[i].question_text : i \in 1..Len(resident_adls)})
        complexity_score == RatMin(Ratio(unique_adls, 5), Ratio(5, 1))
        avg_frequency ==
            Ratio(SumSeq([i \in 1..Len(resident_adls) |-> resident_adls[i].total_hours]),
                  Len(resident_adls))
        frequency_score == RatMin(RatDiv(avg_frequency, 2), Ratio(5, 1))
        total_score ==
            RatAdd(RatDiv(RatMul(hours_score, 4), 10),
                   RatAdd(RatDiv(RatMul(complexity_score, 3), 10),
                          RatDiv(RatMul(frequency_score, 3), 10)))
    IN  RatMin(total_score, Ratio(10, 1))

\* the score the except clause of _calculate_acuity_score returns
AcuityErrorDefault == Ratio(5, 1)

\* the tiers with their boundaries on the other side: 3 is medium, 6 is high
CategorizeCareIntensity_Strict(acuity_score) ==
    IF RatLt(acuity_score, 3) THEN "low"
    ELSE IF RatLt(acuity_score, 6) THEN "medium"
    ELSE "high"

\* _categorize_care_intensity
CategorizeCareIntensity(acuity_score) ==
    IF RatLe(acuity_score, Ratio(3, 1)) THEN "low"
    ELSE IF RatLe(acuity_score, Ratio(6, 1)) THEN "medium"
    ELSE "high"

\* df[df['resident_id'] == resident_id]
ResidentAdls(resident_id) ==
    SelectSeq(adl_data[1], LAMBDA adl : adl.resident_id = resident_id)

(***************************** analyze_adl_patterns *************************)
AnalyzeAdlPatternsBody ==
    IF adl_data = <<>> \/ resident_data = <<>> THEN Return(<<>>)
    ELSE IF adl_data[1] = <<>> \/ resident_data[1] = <<>> THEN Return(<<>>)
    ELSE LET analysed == {i \in 1..Len(resident_data[1]) :
                             Len(ResidentAdls(resident_data[1][i].id)) > 0}
             RowOf(id) == resident_data[1][CHOOSE i \in analysed :
                                              resident_data[1][i].id = id]
             Entry(resident) ==
                 LET total_care_hours == TotalCareHours(resident.total_shift_times)
                     acuity_score == CalculateAcuityScore(ResidentAdls(resident.id),
                                                          total_care_hours)
                 IN  [total_care_hours |-> total_care_hours,
                      acuity_score |-> acuity_score,
                      shift_time_distribution |->
                          AnalyzeShiftTimeDistribution(resident.total_shift_times),
                      daily_care_patterns |->
                          AnalyzeDailyCarePatterns(resident.total_shift_times),
                      care_intensity |-> CategorizeCareIntensity(acuity_score),
                      section_id |-> resident.facility_section_id]
         IN  IF \E i \in analysed :
                   \E k \in 1..Len(resident_data[1][i].total_shift_times) :
                       IsStr(resident_data[1][i].total_shift_times[k].minutes)
             THEN \* "minutes > 0" on a str raises TypeError at line 138
                  Raise("TypeError")
             ELSE Return([id \in {resident_data[1][i].id : i \in analysed} |->
                             Entry(RowOf(id))])

AnalyzeAdlPatterns == Except(AnalyzeAdlPatternsBody, <<>>)

(***************************** calculate_staffing_requirements **************)
\* the dictionary of a mapping restricted to the keys in ids
Restrict(f, ids) == [id \in (DOMAIN f) \cap ids |-> f[id]]

\* the values of a dictionary keyed by numbers, in key order
ValuesOf(f) == [i \in 1..Cardinality(DOMAIN f) |-> f[Ascending(DOMAIN f)[i]]]

\* the entry of one shift type with the adjustment left out of the total
ShiftRequirement_NoAdjustment(total_hours, target_analysis, total_residents) ==
    LET base_staff == BaseStaff(total_hours)
        high_acuity_count ==
            Cardinality({id \in DOMAIN target_analysis :
                            target_analysis[id].care_intensity = "high"})
    IN  [total_care_hours |-> Round2(total_hours),
         base_staff_required |-> base_staff,
         acuity_adjustment |-> Max(0, high_acuity_count - base_staff),
         total_staff_recommended |-> base_staff,
         resident_count |-> total_residents,
         high_acuity_count |-> high_acuity_count]

\* the body of the loop over shift_requirements (lines 513-538)
ShiftRequirement(total_hours, target_analysis, total_residents) ==
    LET base_staff == BaseStaff(total_hours)
        high_acuity_count ==
            Cardinality({id \in DOMAIN target_analysis :
                            target_analysis[id].care_intensity = "high"})
        acuity_adjustment == Max(0, high_acuity_count - base_staff)
        recommended_staff == base_staff + acuity_adjustment
    IN  [total_care_hours |-> Round2(total_hours),
         base_staff_required |-> base_staff,
         acuity_adjustment |-> acuity_adjustment,
         total_staff_recommended |-> recommended_staff,
         resident_count |-> total_residents,
         high_acuity_count |-> high_acuity_count]

CalculateStaffingRequirementsBody(section_id) ==
    IF resident_data = <<>>
    THEN \* "for r in self.resident_data" on None
         Raise("TypeError")
    ELSE LET target_residents ==
                 SelectSeq(resident_data[1],
                           LAMBDA r : section_id = <<>>
                                      \/ <<r.facility_section_id>> = section_id)
             adl_analysis == AnalyzeAdlPatterns
         IN  IF target_residents = <<>> THEN Return(<<>>)
             ELSE IF Raised(adl_analysis) THEN adl_analysis
             ELSE LET target_analysis ==
                          Restrict(adl_analysis.returned,
                                   {target_residents[i].id : i \in 1..Len(target_residents)})
                      shift_requirements ==
                          [t \in Range(shift_types) |->
                              RatSum([i \in 1..Cardinality(DOMAIN target_analysis) |->
                                  ValuesOf(target_analysis)[i].shift_time_distribution[t]])]
                  IN  Return([t \in Range(shift_types) |->
                                 ShiftRequirement(shift_requirements[t], target_analysis,
                                                  Len(target_residents))])

CalculateStaffingRequirements(section_id) ==
    Except(CalculateStaffingRequirementsBody(section_id), <<>>)

(***************************** recommend_optimal_shifts *********************)
\* recommendations.sort(key=lambda x: x['high_acuity_count'], reverse=True)
RECURSIVE InsertByHighAcuity(_, _)
InsertByHighAcuity(sorted, rec) ==
    IF sorted = <<>> THEN <<rec>>
    ELSE IF Head(sorted).high_acuity_count >= rec.high_acuity_count
         THEN <<Head(sorted)>> \o InsertByHighAcuity(Tail(sorted), rec)
         ELSE <<rec>> \o sorted

RECURSIVE SortByHighAcuity(_)
SortByHighAcuity(list) ==
    IF list = <<>> THEN <<>>
    ELSE InsertByHighAcuity(SortByHighAcuity(SubSeq(list, 1, Len(list) - 1)),
                            list[Len(list)])

\* the recommendation dictionaries without the texts and the clock times
RecommendOptimalShiftsBody(section_id) ==
    LET staffing_reqs == CalculateStaffingRequirements(section_id)
    IN  IF Raised(staffing_reqs) THEN staffing_reqs
        ELSE IF DOMAIN staffing_reqs.returned = {} THEN Return(<<>>)
        ELSE IF shift_templates = <<>>
        THEN \* "for t in self.shift_templates" on None
             Raise("TypeError")
        ELSE LET TemplateOf(t) ==
                     SelectSeq(shift_templates[1], LAMBDA row : row.shift_type = t)
                 templated == SelectSeq(shift_types, LAMBDA t : TemplateOf(t) # <<>>)
             IN  Return(SortByHighAcuity(
                     [i \in 1..Len(templated) |->
                         LET reqs == staffing_reqs.returned[templated[i]]
                         IN  [shift_type |-> templated[i],
                              template_id |-> TemplateOf(templated[i])[1].id,
                              staff_required |-> reqs.total_staff_recommended,
                              care_hours |-> reqs.total_care_hours,
                              resident_count |-> reqs.resident_count,
                              high_acuity_count |-> reqs.high_acuity_count,
                              confidence_score |-> CalculateConfidenceScore(reqs)]]))

RecommendOptimalShifts(section_id) == Except(RecommendOptimalShiftsBody(section_id), <<>>)

(***************************** the two weekly functions *********************)
\* the (day, shift type) cells in the order the nested loops visit them
Cells ==
    [c \in 1..(Len(days) * Len(shift_types)) |->
        [day |-> days[((c - 1) \div Len(shift_types)) + 1],
         shift_type |-> shift_types[((c - 1) % Len(shift_types)) + 1]]]

\* adl_analysis filtered by "if section_id:" (no section id is 0)
FilterBySection(adl_analysis, section_id) ==
    IF section_id = <<>> THEN adl_analysis
    ELSE Restrict(adl_analysis,
                  {id \in DOMAIN adl_analysis : <<adl_analysis[id].section_id>> = section_id})

\* weekly_patterns[day][shift_type] summed over the residents
WeeklyPatterns(adl_analysis) ==
    [d \in Range(days) |->
        [t \in Range(shift_types) |->
            RatSum([i \in 1..Cardinality(DOMAIN adl_analysis) |->
                      ValuesOf(adl_analysis)[i].daily_care_patterns[d][t]])]]

\* recommendations.sort(key=lambda x: x['care_hours'], reverse=True)
RECURSIVE InsertByCareHours(_, _)
InsertByCareHours(sorted, rec) ==
    IF sorted = <<>> THEN <<rec>>
    ELSE IF RatLe(rec.care_hours, Head(sorted).care_hours)
         THEN <<Head(sorted)>> \o InsertByCareHours(Tail(sorted), rec)
         ELSE <<rec>> \o sorted

RECURSIVE SortByCareHours(_)
SortByCareHours(list) ==
    IF list = <<>> THEN <<>>
    ELSE InsertByCareHours(SortByCareHours(SubSeq(list, 1, Len(list) - 1)),
                           list[Len(list)])

RecommendShiftsForWeekBody(section_id) ==
    LET analysed == AnalyzeAdlPatterns
    IN  IF Raised(analysed) THEN analysed
        ELSE LET adl_analysis == FilterBySection(analysed.returned, section_id)
                 weekly_patterns == WeeklyPatterns(adl_analysis)
                 \* a cell with care hours lies in a day with care hours
                 needed == SelectSeq(Cells, LAMBDA c :
                               weekly_patterns[c.day][c.shift_type].num > 0)
             IN  IF DOMAIN adl_analysis = {} THEN Return(<<>>)
                 ELSE Return(SortByCareHours(
                         [i \in 1..Len(needed) |->
                             LET care_hours ==
                                     weekly_patterns[needed[i].day][needed[i].shift_type]
                             IN  [day |-> needed[i].day,
                                  shift_type |-> needed[i].shift_type,
                                  care_hours |-> Round2(care_hours),
                                  staff_required |-> WeeklyBaseStaff(care_hours),
                                  resident_count |-> Cardinality(DOMAIN adl_analysis),
                                  confidence_score |->
                                      CalculateWeeklyConfidence(
                                          care_hours, Cardinality(DOMAIN adl_analysis))]]))

RecommendShiftsForWeek(section_id) == Except(RecommendShiftsForWeekBody(section_id), <<>>)

\* the list is built in (day, shift type) order, the order of its final sort
GenerateShiftTemplateRecommendationsBody(section_id) ==
    LET analysed == AnalyzeAdlPatterns
    IN  IF Raised(analysed) THEN analysed
        ELSE LET adl_analysis == FilterBySection(analysed.returned, section_id)
                 weekly_patterns == WeeklyPatterns(adl_analysis)
                 needed == SelectSeq(Cells, LAMBDA c :
                               weekly_patterns[c.day][c.shift_type].num > 0)
             IN  IF DOMAIN adl_analysis = {} THEN Return(<<>>)
                 ELSE Return(
                         [i \in 1..Len(needed) |->
                             LET care_hours ==
                                     weekly_patterns[needed[i].day][needed[i].shift_type]
                             IN  [day |-> needed[i].day,
                                  shift_type |-> needed[i].shift_type,
                                  staff_needed |-> StaffNeeded(care_hours),
                                  care_hours_covered |-> Round2(care_hours),
                                  resident_count |-> Cardinality(DOMAIN adl_analysis),
                                  confidence_score |->
                                      CalculateWeeklyConfidence(
                                          care_hours, Cardinality(DOMAIN adl_analysis))]])

GenerateShiftTemplateRecommendations(section_id) ==
    Except(GenerateShiftTemplateRecommendationsBody(section_id), <<>>)

(***************************** the engine as a state machine ****************)
\* a newly constructed engine for one of the facilities
InitEngine ==
    /\ NoScheduler
    /\ \E tables \in EngineDbStates : EngineConstructed(tables)
    /\ runs = OneRun

\* load_data: the queries succeed and their rows become the attributes (the
\* except clause leaves four empty lists, which is the empty facility)
EngineLoadData ==
    /\ call.name = "__init__"
    /\ adl_data' = <<engine_db.adls>>
    /\ resident_data' = <<engine_db.residents>>
    /\ shift_templates' = <<engine_db.templates>>
    /\ call' = [name |-> "load_data"]
    /\ ret' = Return(<<>>)
    /\ UNCHANGED engine_db
    /\ UNCHANGED <<scheduler_vars, runs>>

CallAnalyzeAdlPatterns ==
    /\ AwaitingCall
    /\ call' = [name |-> "analyze_adl_patterns"]
    /\ ret' = AnalyzeAdlPatterns
    /\ UNCHANGED <<engine_db, adl_data, resident_data, shift_templates>>
    /\ UNCHANGED <<scheduler_vars, runs>>

CallCalculateStaffingRequirements ==
    /\ AwaitingCall
    /\ \E section_id \in SectionIds :
          /\ call' = [name |-> "calculate_staffing_requirements", section_id |-> section_id]
          /\ ret' = CalculateStaffingRequirements(section_id)
    /\ UNCHANGED <<engine_db, adl_data, resident_data, shift_templates>>
    /\ UNCHANGED <<scheduler_vars, runs>>

CallRecommendOptimalShifts ==
    /\ AwaitingCall
    /\ \E section_id \in SectionIds :
          /\ call' = [name |-> "recommend_optimal_shifts", section_id |-> section_id]
          /\ ret' = RecommendOptimalShifts(section_id)
    /\ UNCHANGED <<engine_db, adl_data, resident_data, shift_templates>>
    /\ UNCHANGED <<scheduler_vars, runs>>

CallRecommendShiftsForWeek ==
    /\ AwaitingCall
    /\ \E section_id \in SectionIds :
          /\ call' = [name |-> "recommend_shifts_for_week", section_id |-> section_id]
          /\ ret' = RecommendShiftsForWeek(section_id)
    /\ UNCHANGED <<engine_db, adl_data, resident_data, shift_templates>>
    /\ UNCHANGED <<scheduler_vars, runs>>

CallGenerateShiftTemplateRecommendations ==
    /\ AwaitingCall
    /\ \E section_id \in SectionIds :
          /\ call' = [name |-> "generate_shift_template_recommendations",
                      section_id |-> section_id]
          /\ ret' = GenerateShiftTemplateRecommendations(section_id)
    /\ UNCHANGED <<engine_db, adl_data, resident_data, shift_templates>>
    /\ UNCHANGED <<scheduler_vars, runs>>

NextEngine ==
    \/ EngineLoadData
    \/ CallAnalyzeAdlPatterns
    \/ CallCalculateStaffingRequirements
    \/ CallRecommendOptimalShifts
    \/ CallRecommendShiftsForWeek
    \/ CallGenerateShiftTemplateRecommendations

SpecEngine == InitEngine /\ [][NextEngine]_vars

\* the data have been loaded
Loaded == resident_data # <<>>


(***************************************************************************)
(* C17: a shift type whose aggregated care hours are zero and that has no    *)
(* high-acuity resident is reported by calculate_staffing_requirements with  *)
(* base_staff_required = 0 and total_staff_recommended = 0.                  *)
(***************************************************************************)
C17_ZeroHoursZeroHeadcount ==
    call.name = "calculate_staffing_requirements" =>
        \A t \in DOMAIN ret.returned :
            LET entry == ret.returned[t]
            IN  (RatEq(entry.total_care_hours, 0) /\ entry.high_acuity_count = 0) =>
                    /\ entry.base_staff_required = 0
                    /\ entry.total_staff_recommended = 0

(***************************************************************************)
(* C19: in every entry returned by calculate_staffing_requirements           *)
(* acuity_adjustment = max(0, high_acuity_count - base_staff_required) and   *)
(* total_staff_recommended = base_staff_required + acuity_adjustment, so     *)
(* the total is the larger of base_staff_required and high_acuity_count and  *)
(* is below neither.                                                         *)
(***************************************************************************)
C19_AcuityAdjustment ==
    call.name = "calculate_staffing_requirements" =>
        \A t \in DOMAIN ret.returned :
            LET entry == ret.returned[t]
            IN  /\ entry.acuity_adjustment =
                       Max(0, entry.high_acuity_count - entry.base_staff_required)
                /\ entry.total_staff_recommended =
                       entry.base_staff_required + entry.acuity_adjustment
                /\ entry.total_staff_recommended =
                       Max(entry.base_staff_required, entry.high_acuity_count)
                /\ entry.total_staff_recommended >= entry.base_staff_required
                /\ entry.total_staff_recommended >= entry.high_acuity_count

\* a shift type whose high-acuity residents outnumber the base headcount, and
\* one whose base headcount outnumbers them
C19_Witness ==
    /\ call.name = "calculate_staffing_requirements"
    /\ \E t \in DOMAIN ret.returned :
          /\ ret.returned[t].acuity_adjustment > 0
          /\ ret.returned[t].total_staff_recommended = ret.returned[t].high_acuity_count
    /\ \E t \in DOMAIN ret.returned :
          /\ ret.returned[t].high_acuity_count > 0
          /\ ret.returned[t].base_staff_required > ret.returned[t].high_acuity_count
          /\ ret.returned[t].acuity_adjustment = 0

(***************************************************************************)
(* C20: for every resident analysed by analyze_adl_patterns the 21 cells of  *)
(* daily_care_patterns (7 days x 3 shifts) sum to the resident's             *)
(* total_care_hours, whatever keys the shift-time map holds.                 *)
(***************************************************************************)
C20_CellsSumToTotal ==
    call.name = "analyze_adl_patterns" =>
        \A id \in DOMAIN ret.returned :
            LET entry == ret.returned[id]
                cells == [c \in 1..Len(Cells) |->
                             entry.daily_care_patterns[Cells[c].day][Cells[c].shift_type]]
                total == RatSum(cells)
            IN  total.num * entry.total_care_hours.den =
                    entry.total_care_hours.num * total.den


(***************************** the core as a whole **************************)
\* the public entry points of the recommendation engine
EntryPoints ==
    {"analyze_adl_patterns", "calculate_staffing_requirements",
     "recommend_optimal_shifts", "recommend_shifts_for_week",
     "generate_shift_template_recommendations"}

\* a process of the core serves one request: a week schedule from the
\* scheduler, or one call of the recommendation engine
InitCore == Init \/ InitEngine

NextCore == Next \/ NextEngine

SpecCore == InitCore /\ [][NextCore]_vars

(***************************************************************************)
(* C13: no public entry point lets an exception escape to its caller.  A     *)
(* call of the engine always ends by returning; when its body fails, and     *)
(* whenever the data were never loaded, it returns its empty result ({} or   *)
(* []).  generate_smart_week_schedule always ends with a result that says    *)
(* whether it succeeded, and a failed one has an empty schedule and          *)
(* confidence 0.                                                             *)
(***************************************************************************)
C13_NoExceptionEscapes ==
    /\ call.name \in EntryPoints =>
          /\ ~Raised(ret)
          /\ ~Loaded => ret = Return(<<>>)
          /\ (call.name = "analyze_adl_patterns" /\ Raised(AnalyzeAdlPatternsBody)) =>
                ret = Return(<<>>)
          /\ (call.name = "calculate_staffing_requirements"
                /\ Raised(CalculateStaffingRequirementsBody(call.section_id))) =>
                ret = Return(<<>>)
          /\ (call.name = "recommend_optimal_shifts"
                /\ Raised(RecommendOptimalShiftsBody(call.section_id))) =>
                ret = Return(<<>>)
          /\ (call.name = "recommend_shifts_for_week"
                /\ Raised(RecommendShiftsForWeekBody(call.section_id))) =>
                ret = Return(<<>>)
          /\ (call.name = "generate_shift_template_recommendations"
                /\ Raised(GenerateShiftTemplateRecommendationsBody(call.section_id))) =>
                ret = Return(<<>>)
    /\ pc = "done" =>
          /\ result.success \in BOOLEAN
          /\ ~result.success =>
                /\ result.schedule = <<>>
                /\ result.confidence_score = 0

\* calculate_staffing_requirements was called before load_data: iterating over
\* None failed inside the body and the caller received {}
C13_Witness ==
    /\ call.name = "calculate_staffing_requirements"
    /\ ~Loaded
    /\ Raised(CalculateStaffingRequirementsBody(call.section_id))
    /\ ret = Return(<<>>)


(***************************************************************************)
(* C21: the cells of daily_care_patterns come from the first source that    *)
(* has data: the resident's total_shift_times when it is not empty;          *)
(* otherwise the per_day_shift_times maps of the resident's ADL rows, parsed *)
(* the same way; otherwise, when a row has a total_hours that is not zero,   *)
(* that total spread evenly, each of the 21 cells being total/7/3.           *)
(***************************************************************************)
C21_SourceOrder ==
    call.name = "analyze_adl_patterns" =>
        \A id \in DOMAIN ret.returned :
            LET resident == resident_data[1][CHOOSE i \in 1..Len(resident_data[1]) :
                                                resident_data[1][i].id = id]
                rows == ResidentAdls(id)
                cells == ret.returned[id].daily_care_patterns
                Same(x, y) == x.num * y.den = y.num * x.den
            IN  \A d \in Range(days) : \A t \in Range(shift_types) :
                    IF resident.total_shift_times # <<>>
                    THEN Same(cells[d][t],
                              AnalyzeDailyCarePatterns(resident.total_shift_times)[d][t])
                    ELSE IF \E k \in 1..Len(rows) : rows[k].per_day_shift_times # <<>>
                    THEN Same(cells[d][t],
                              RatSum([k \in 1..Len(rows) |->
                                  AnalyzeDailyCarePatterns(rows[k].per_day_shift_times)[d][t]]))
                    ELSE IF \E k \in 1..Len(rows) : rows[k].total_hours # 0
                    THEN Same(cells[d][t],
                              Ratio(SumSeq([k \in 1..Len(rows) |-> rows[k].total_hours]),
                                    Len(days) * Len(shift_types)))
                    ELSE cells[d][t].num = 0


(***************************** the analysis of one resident alone ***********)
\* the shift-time maps the functions are given: up to MaxShiftKeys items with
\* different keys, any of the minute values
MaxShiftKeys == 2
MinuteValues == {-15, 0, 60, 120}

ShiftKeys ==
    {Key_ResidentTotalMonShift1Time, Key_ResidentTotalTuesShift2Time,
     Key_ResidentTotalSunShift3Time, Key_MonShift1Time, Key_Shift2Time,
     Key_MonTotal, Key_Total}

ShiftTimeInputs ==
    LET Items == [key : ShiftKeys, minutes : {Minutes(n) : n \in MinuteValues}]
    IN  UNION { {items \in [1..n -> Items] :
                    \A i, j \in 1..n : i # j => items[i].key # items[j].key} :
                n \in 0..MaxShiftKeys }

\* the arguments of _calculate_acuity_score: total care hours in blocks of four
\* hours, and one to MaxAdlRows ADL rows of 0..MaxRowHours hours each
MaxCareBlocks == 60
MaxAdlRows == 26
MaxRowHours == 11

\* the scores _categorize_care_intensity is given, in hundredths
MaxScoreHundredths == 1000

\* lines 144-147 of analyze_adl_patterns for one total_shift_times dictionary
AnalyzeShiftTimesCall ==
    /\ AwaitingCall
    /\ \E total_shift_times \in ShiftTimeInputs :
          /\ call' = [name |-> "_analyze_daily_care_patterns",
                      total_shift_times |-> total_shift_times]
          /\ ret' = [shift_time_distribution |->
                         AnalyzeShiftTimeDistribution(total_shift_times),
                     daily_care_patterns |->
                         AnalyzeDailyCarePatterns(total_shift_times)]
    /\ UNCHANGED <<engine_db, adl_data, resident_data, shift_templates>>
    /\ UNCHANGED <<scheduler_vars, runs>>

\* _calculate_acuity_score(resident_adls, total_care_hours)
AcuityScoreCall ==
    /\ AwaitingCall
    /\ \E blocks \in 0..MaxCareBlocks, count \in 1..MaxAdlRows,
          total_hours \in 0..MaxRowHours :
          LET resident_adls == AdlRows(count, total_hours, PerDayShiftTimes.none)
              total_care_hours == Hours(240 * blocks)
          IN  /\ call' = [name |-> "_calculate_acuity_score",
                          total_care_hours |-> total_care_hours,
                          unique_adls |-> count, avg_frequency |-> total_hours]
              /\ ret' = CalculateAcuityScore(resident_adls, total_care_hours)
    /\ UNCHANGED <<engine_db, adl_data, resident_data, shift_templates>>
    /\ UNCHANGED <<scheduler_vars, runs>>

\* _categorize_care_intensity(acuity_score)
CategorizeCareIntensityCall ==
    /\ AwaitingCall
    /\ \E h \in 0..MaxScoreHundredths :
          /\ call' = [name |-> "_categorize_care_intensity",
                      acuity_score |-> Ratio(h, 100)]
          /\ ret' = CategorizeCareIntensity(Ratio(h, 100))
    /\ UNCHANGED <<engine_db, adl_data, resident_data, shift_templates>>
    /\ UNCHANGED <<scheduler_vars, runs>>

NextAnalysis == AnalyzeShiftTimesCall \/ AcuityScoreCall \/ CategorizeCareIntensityCall

SpecAnalysis == InitFormulas /\ [][NextAnalysis]_vars


(***************************************************************************)
(* C22: for a shift-time map whose keys name at most one day and one shift,  *)
(* each cell (day D, shift S) of daily_care_patterns is the sum of           *)
(* minutes/60 over exactly the keys with minutes > 0 whose name contains     *)
(* D's abbreviation and S's index; a key with minutes <= 0, or one that does *)
(* not decode to both a day and a shift, adds to no cell and does not stop   *)
(* the keys after it from being counted.                                     *)
(***************************************************************************)
C22_CellsFromKeys ==
    call.name = "_analyze_daily_care_patterns" =>
        LET items == call.total_shift_times
            Abbrev(mapping, name) ==
                mapping[CHOOSE i \in 1..Len(mapping) : mapping[i].name = name].abbrev
            Counted(d, t) ==
                {i \in 1..Len(items) :
                    /\ items[i].minutes.int > 0
                    /\ Contains(items[i].key, Abbrev(day_mapping, d))
                    /\ Contains(items[i].key, Abbrev(shift_mapping, t))}
            Dropped ==
                {i \in 1..Len(items) :
                    \/ items[i].minutes.int <= 0
                    \/ \A k \in 1..Len(day_mapping) :
                          ~Contains(items[i].key, day_mapping[k].abbrev)
                    \/ \A k \in 1..Len(shift_mapping) :
                          ~Contains(items[i].key, shift_mapping[k].abbrev)}
        IN  /\ \A d \in Range(days) : \A t \in Range(shift_types) :
                  ret.daily_care_patterns[d][t] =
                      Hours(SumSeq([i \in 1..Len(items) |->
                                      IF i \in Counted(d, t)
                                      THEN items[i].minutes.int ELSE 0]))
            /\ \A i \in Dropped : \A d \in Range(days) : \A t \in Range(shift_types) :
                  i \notin Counted(d, t)
            /\ (items = << [key |-> Key_MonShift1Time, minutes |-> Minutes(120)],
                           [key |-> Key_ResidentTotalTuesShift2Time,
                            minutes |-> Minutes(60)] >>) =>
                  \A d \in Range(days) : \A t \in Range(shift_types) :
                      ret.daily_care_patterns[d][t] =
                          IF d = "Monday" /\ t = "day" THEN Ratio(2, 1)
                          ELSE IF d = "Tuesday" /\ t = "swing" THEN Ratio(1, 1)
                          ELSE Ratio(0, 1)

\* a key that does not decode, followed by a key that is counted
C22_Witness ==
    /\ call.name = "_analyze_daily_care_patterns"
    /\ call.total_shift_times =
           << [key |-> Key_Total, minutes |-> Minutes(120)],
              [key |-> Key_ResidentTotalSunShift3Time, minutes |-> Minutes(60)] >>
    /\ ret.daily_care_patterns["Sunday"]["noc"] = Ratio(1, 1)
    /\ ret.daily_care_patterns["Monday"]["day"] = Ratio(0, 1)


(***************************************************************************)
(* C23: for non-negative total care hours, at least one ADL row and a        *)
(* non-negative mean of the rows' hours, the acuity score is                 *)
(* 0.4*min(hours/8, 10) + 0.3*min(distinct_tasks/5, 5)                       *)
(* + 0.3*min(mean_task_hours/2, 5), capped at 10, and lies in 0..10.         *)
(* In hundredths: min(5*hours, 400) + min(6*tasks, 150) + min(15*mean, 150). *)
(***************************************************************************)
C23_AcuityBounds ==
    call.name = "_calculate_acuity_score" =>
        LET hundredths ==
                Min(1000,
                    Min((5 * call.total_care_hours.num) \div call.total_care_hours.den, 400)
                    + Min(6 * call.unique_adls, 150)
                    + Min(15 * call.avg_frequency, 150))
        IN  /\ ret.den > 0
            /\ 0 <= ret.num
            /\ ret.num <= 10 * ret.den
            /\ 100 * ret.num = hundredths * ret.den

\* every term at its cap: 80 hours or more, 25 tasks or more, a mean of 10
\* hours or more, score 0.4*10 + 0.3*5 + 0.3*5 = 7
C23_Witness ==
    /\ call.name = "_calculate_acuity_score"
    /\ call.total_care_hours = Ratio(240, 1)
    /\ call.unique_adls > 25
    /\ call.avg_frequency > 10
    /\ ret = Ratio(7, 1)


(***************************************************************************)
(* C24: the tier mapping is total with exact boundaries: a score <= 3 is     *)
(* low, a score with 3 < score <= 6 is medium, a score > 6 is high (3.0 low, *)
(* 3.01 medium, 6.0 medium, 6.01 high), and the error default 5.0 is medium. *)
(***************************************************************************)
C24_TierBoundaries ==
    call.name = "_categorize_care_intensity" =>
        LET hundredths == call.acuity_score.num
        IN  /\ call.acuity_score.den = 100
            /\ ret \in {"low", "medium", "high"}
            /\ ret = "low" <=> hundredths <= 300
            /\ ret = "medium" <=> (300 < hundredths /\ hundredths <= 600)
            /\ ret = "high" <=> hundredths > 600
            /\ hundredths = 300 => ret = "low"
            /\ hundredths = 301 => ret = "medium"
            /\ hundredths = 600 => ret = "medium"
            /\ hundredths = 601 => ret = "high"
            /\ hundredths * AcuityErrorDefault.den = 100 * AcuityErrorDefault.num =>
                  ret = "medium"
            /\ CategorizeCareIntensity(AcuityErrorDefault) = "medium"

\* the score 6.0, the upper boundary of medium
C24_Witness ==
    /\ call.name = "_categorize_care_intensity"
    /\ call.acuity_score = Ratio(600, 100)
    /\ ret = "medium"


(***************************************************************************)
(* C29: for every shift-time map the shift totals agree with the matrix:     *)
(* for each shift type, shift_time_distribution equals the sum of that       *)
(* shift's cells of daily_care_patterns over the seven days.                 *)
(***************************************************************************)
C29_ShiftTotalsAgree ==
    call.name = "_analyze_daily_care_patterns" =>
        \A t \in Range(shift_types) :
            LET column == RatSum([k \in 1..Len(days) |->
                                     ret.daily_care_patterns[days[k]][t]])
                total == ret.shift_time_distribution[t]
            IN  column.num * total.den = total.num * column.den


(***************************** the week of any target date ******************)
\* target dates over three weeks (day 1 is a Monday), for facilities without
\* persisted shifts: no staff or one staff member, and no template, a day
\* template or one template per shift type, each requiring one
MaxTargetDate == 21
WeekTargetDates == 1..MaxTargetDate

WeekDbStates ==
    { d \in DbStates :
        /\ Len(d.staff) <= 1
        /\ d.shifts = <<>>
        /\ d.assignments = <<>>
        /\ \A i \in 1..Len(d.templates) : d.templates[i].required_staff_count = 1
        /\ Len(d.templates) \in {0, Len(shift_types)} \/ d.templates[1].shift_type = "day" }

InitWeek ==
    /\ db \in WeekDbStates
    /\ target_date \in WeekTargetDates
    /\ staff_data = "None"
    /\ templates_data = "None"
    /\ shifts_data = "None"
    /\ assignments_data = "None"
    /\ pc = "start"
    /\ week_dates = <<>>
    /\ analysis = <<>>
    /\ schedule = <<>>
    /\ day_schedule = <<>>
    /\ day_staff_assignments = {}
    /\ day_index = 0
    /\ shift_index = 0
    /\ available_staff = <<>>
    /\ sort_keys = <<>>
    /\ result = <<>>
    /\ NoEngine
    /\ runs = OneRun

SpecWeek == InitWeek /\ [][Next]_vars

(***************************************************************************)
(* C30: for every target date the week is 7 consecutive dates from the       *)
(* Monday on or before the target date to the following Sunday, the target   *)
(* date among them; the generated schedule has one day entry per date, in    *)
(* that order, and each day entry holds exactly the shift entries day, swing *)
(* and noc, which are processed in that order.                               *)
(***************************************************************************)
C30_MondayToSunday ==
    /\ Analyzed =>
          /\ Len(week_dates) = 7
          /\ Weekday(week_dates[1]) = 0
          /\ Weekday(week_dates[7]) = 6
          /\ \A i \in 1..6 : week_dates[i + 1] = week_dates[i] + 1
          /\ week_dates[1] <= target_date /\ target_date <= week_dates[7]
          /\ \E i \in 1..7 : week_dates[i] = target_date
    /\ pc = "schedule" =>
          /\ Len(schedule) = day_index - 1
          /\ DOMAIN day_schedule = {shift_types[k] : k \in 1..(shift_index - 1)}
    /\ \A d \in 1..Len(schedule) :
          /\ schedule[d].date = Strftime(week_dates[d])
          /\ DOMAIN schedule[d].shifts = {"day", "swing", "noc"}
    /\ pc = "return" => Len(schedule) = 7
    /\ (pc = "done" /\ result.success) =>
          /\ Len(result.schedule) = 7
          /\ result.schedule = schedule
          /\ result.week_dates = [i \in 1..7 |-> Strftime(week_dates[i])]

\* a returned week for a target date that is a Sunday of a later week: the
\* week starts six days before it
C30_Witness ==
    /\ pc = "done" /\ result.success
    /\ Weekday(target_date) = 6
    /\ target_date > 7
    /\ Len(result.schedule) = 7
    /\ result.schedule[1].date = Strftime(target_date - 6)
    /\ result.schedule[7].date = Strftime(target_date)


C26_InputsUnchanged ==
    pc # "start" =>
        /\ staff_data = db.staff
        /\ templates_data = db.templates
        /\ shifts_data = db.shifts
        /\ assignments_data = db.assignments
        /\ \A i \in 1..Len(available_staff) :
              LET row == StaffRow(available_staff[i].id)
              IN  /\ DOMAIN available_staff[i] = DOMAIN row \cup {"availability_score"}
                  /\ \A f \in DOMAIN row : available_staff[i][f] = row[f]

\* a call has lowered the score of a candidate it assigned, in its own list
C26_Witness ==
    /\ pc \in {"schedule", "return"}
    /\ staff_data = db.staff
    /\ \E i \in 1..Len(available_staff) :
          available_staff[i].availability_score =
              analysis.staff_availability[available_staff[i].id].availability_score - 30

(***************************************************************************)
(* apply_smart_schedule: a schedule is written to the Shift and              *)
(* StaffAssignment tables of the facility.  The schedule is the argument of  *)
(* the call; store rows of this part carry the columns the method reads.     *)
(***************************************************************************)
MaxApplyDays == 2
ApplyDates == [d \in 1..MaxApplyDays |-> 7 + d]

\* active staff of the facility: one or two assistants
ApplyStaffRows ==
    { [i \in 1..n |-> [id |-> i, role |-> "cna"]] : n \in 1..MaxStaff }

\* active templates in start_time order: no swing template, one template per
\* type, or two day templates of which template 3 starts first
ApplyTemplateRows ==
    { <<[id |-> 1, shift_type |-> "day"]>>,
      <<[id |-> 1, shift_type |-> "day"], [id |-> 2, shift_type |-> "swing"]>>,
      <<[id |-> 3, shift_type |-> "day"], [id |-> 1, shift_type |-> "day"],
        [id |-> 2, shift_type |-> "swing"]>> }

\* the store before the call: no shift, or the Monday shift of template 1 with
\* no assignment or one
ApplyStores ==
    { [staff |-> st, templates |-> t, shifts |-> <<>>, assignments |-> <<>>] :
        st \in ApplyStaffRows, t \in ApplyTemplateRows }
    \cup
    { d \in { [staff |-> st, templates |-> t,
                shifts |-> <<[id |-> 1, date |-> DateValue(ApplyDates[1]),
                              shift_template_id |-> 1]>>,
                assignments |-> a] :
                 st \in ApplyStaffRows, t \in ApplyTemplateRows,
                 a \in {<<>>} \cup { <<[staff |-> s, shift |-> 1]>> : s \in 1..MaxStaff } } :
        ValidDb(d) }

\* an 'optimized' dictionary naming the staff of ids
ApplyEntry(ids) ==
    ShiftEntry([required_staff |-> MaxStaff,
                assigned_staff |-> [i \in 1..Len(ids) |->
                                      [staff_id |-> ids[i], role |-> "cna"]]])

ApplyDayEntries ==
    {NoTemplateEntry} \cup {ApplyEntry(ids) : ids \in {<<>>, <<1>>, <<1, 2>>, <<1, 1>>}}

ApplySwingEntries == {NoTemplateEntry, ApplyEntry(<<2>>)}

\* the day dictionaries of a schedule for ApplyDates[d]; one has no date
ApplyDayData(d) ==
    { [date |-> Strftime(ApplyDates[d]),
       shifts |-> [t \in Range(shift_types) |->
                     IF t = "day" THEN e ELSE IF t = "swing" THEN s ELSE NoTemplateEntry]] :
        e \in ApplyDayEntries, s \in ApplySwingEntries }
    \cup
    { [date |-> <<>>,
       shifts |-> [t \in Range(shift_types) |->
                     IF t = "day" THEN ApplyEntry(<<1>>) ELSE NoTemplateEntry]] }

ApplySchedules ==
    UNION { { [d \in 1..n |-> f[d]] : f \in { g \in [1..n -> UNION {ApplyDayData(d) : d \in 1..n}] :
                                               \A d \in 1..n : g[d] \in ApplyDayData(d) } }
            : n \in 0..MaxApplyDays }

\* the loops of apply_smart_schedule flattened: one item per (day, shift type)
\* in iteration order; a day without date gives the item of its error
ApplyItems(schedule_data) ==
    Concat([d \in 1..Len(schedule_data) |->
               IF schedule_data[d].date = <<>>
               THEN <<[missing_date |-> TRUE]>>
               ELSE [k \in 1..Len(shift_types) |->
                        [missing_date |-> FALSE,
                         date |-> schedule_data[d].date,
                         shift_type |-> shift_types[k],
                         shift_data |-> schedule_data[d].shifts[shift_types[k]]]]])

\* next((t for t in self.templates_data if t.get('shift_type') == shift_type), None)
ApplyTemplate(templates, shift_type) ==
    LET hits == {i \in 1..Len(templates) : templates[i].shift_type = shift_type}
    IN  IF hits = {} THEN <<>>
        ELSE templates[CHOOSE i \in hits : \A j \in hits : i <= j]

\* a lookup that never finds the shift
ExistingShift_Never(shifts, date_str, template_id) == <<>>

\* Shift.objects.filter(date=date_str, shift_template_id=template['id'],
\*                      facility_id=self.facility_id).first()
ExistingShift(shifts, date_str, template_id) ==
    LET hits == {i \in 1..Len(shifts) :
                    /\ shifts[i].date.ymd = date_str.ymd
                    /\ shifts[i].shift_template_id = template_id}
    IN  IF hits = {} THEN <<>>
        ELSE shifts[CHOOSE i \in hits : \A j \in hits : i <= j]

\* the id of a created Shift row
NewShiftId(shifts) ==
    1 + (IF shifts = <<>> THEN 0
         ELSE CHOOSE m \in {shifts[i].id : i \in 1..Len(shifts)} :
                  \A i \in 1..Len(shifts) : shifts[i].id <= m)

\* the loop over assigned_staff: StaffAssignment.objects.create raises for an
\* unknown staff id and for a (staff, shift) pair that exists
RECURSIVE CreateAssignments(_, _, _)
CreateAssignments(st, shift_id, assigned_staff) ==
    IF assigned_staff = <<>> THEN st
    ELSE LET staff_id == Head(assigned_staff).staff_id
             created ==
                /\ \E i \in 1..Len(db.staff) : db.staff[i].id = staff_id
                /\ ~ \E i \in 1..Len(st.assignments) :
                        st.assignments[i] = [staff |-> staff_id, shift |-> shift_id]
             after ==
                IF created
                THEN [st EXCEPT !.assignments = Append(@, [staff |-> staff_id,
                                                           shift |-> shift_id]),
                                !.created_assignments = @ + 1]
                ELSE [st EXCEPT !.errors = Append(@, "Failed to create assignment")]
         IN  CreateAssignments(after, shift_id, Tail(assigned_staff))

\* one pass of the inner loop of apply_smart_schedule
ApplyShift(st, item) ==
    IF item.missing_date
    THEN [st EXCEPT !.errors = Append(@, "Missing date for day")]
    ELSE IF item.shift_data.status # "optimized" THEN st
    ELSE LET template == ApplyTemplate(db.templates, item.shift_type)
         IN  IF template = <<>>
             THEN [st EXCEPT !.errors = Append(@, "No template found")]
             ELSE LET existing_shift == ExistingShift(st.shifts, item.date, template.id)
                      Kept(a) == a.shift # existing_shift.id
                      shift_id == IF existing_shift # <<>> THEN existing_shift.id
                                  ELSE NewShiftId(st.shifts)
                      saved ==
                         IF existing_shift # <<>>
                         THEN [st EXCEPT !.assignments = SelectSeq(@, Kept),
                                         !.created_shifts = Append(@, "updated")]
                         ELSE [st EXCEPT !.shifts =
                                            Append(@, [id |-> shift_id,
                                                       date |-> DateValue(item.date.ymd),
                                                       shift_template_id |-> template.id]),
                                         !.created_shifts = Append(@, "new")]
                  IN  CreateAssignments(saved, shift_id, item.shift_data.assigned_staff)

RECURSIVE ApplyLoop(_, _)
ApplyLoop(st, items) ==
    IF items = <<>> THEN st
    ELSE ApplyLoop(ApplyShift(st, Head(items)), Tail(items))

\* the tables and the three lists when the loops of apply_smart_schedule end
ApplyOutcome(schedule_data) ==
    ApplyLoop([shifts |-> db.shifts, assignments |-> db.assignments,
               created_shifts |-> <<>>, created_assignments |-> 0, errors |-> <<>>],
              ApplyItems(schedule_data))

\* the dictionary apply_smart_schedule returns
ApplyResult(schedule_data) ==
    IF schedule_data = <<>>
    THEN [success |-> FALSE, error |-> "No schedule data provided",
          created_shifts |-> 0, created_assignments |-> 0]
    ELSE LET out == ApplyOutcome(schedule_data)
             New(s) == s = "new"
             Updated(s) == s = "updated"
         IN  [success |-> Len(out.errors) = 0,
              created_shifts |-> Len(SelectSeq(out.created_shifts, New)),
              updated_shifts |-> Len(SelectSeq(out.created_shifts, Updated)),
              created_assignments |-> out.created_assignments,
              errors |-> out.errors]

\* a scheduler instance and the schedule handed to apply_smart_schedule
InitApply ==
    /\ db \in ApplyStores
    /\ target_date \in TargetDates
    /\ staff_data = "None"
    /\ templates_data = "None"
    /\ shifts_data = "None"
    /\ assignments_data = "None"
    /\ pc = "apply"
    /\ week_dates = <<>>
    /\ analysis = <<>>
    /\ schedule \in ApplySchedules
    /\ day_schedule = <<>>
    /\ day_staff_assignments = {}
    /\ day_index = 0
    /\ shift_index = 0
    /\ available_staff = <<>>
    /\ sort_keys = <<>>
    /\ result = <<>>
    /\ NoEngine
    /\ runs = OneRun

\* apply_smart_schedule(schedule), called once and then once more
ApplySmartSchedule ==
    /\ pc \in {"apply", "applied"}
    /\ staff_data' = db.staff
    /\ templates_data' = db.templates
    /\ shifts_data' = db.shifts
    /\ assignments_data' = db.assignments
    /\ db' = IF schedule = <<>> THEN db
             ELSE [db EXCEPT !.shifts = ApplyOutcome(schedule).shifts,
                             !.assignments = ApplyOutcome(schedule).assignments]
    /\ result' = ApplyResult(schedule)
    /\ pc' = IF pc = "apply" THEN "applied" ELSE "reapplied"
    /\ UNCHANGED <<target_date, week_dates, analysis, schedule, day_schedule,
                   day_staff_assignments, day_index, shift_index, available_staff,
                   sort_keys>>
    /\ UNCHANGED <<engine_vars, runs>>

NextApply == ApplySmartSchedule

SpecApply == InitApply /\ [][NextApply]_vars

\* the 'optimized' entries of the applied schedule whose day has a date
OptimizedItems ==
    { it \in Range(ApplyItems(schedule)) :
        ~ it.missing_date /\ it.shift_data.status = "optimized" }

\* the Shift rows of a store for the date and first template of an entry
ShiftsOfItem(store, it) ==
    { i \in 1..Len(store.shifts) :
        /\ ApplyTemplate(store.templates, it.shift_type) # <<>>
        /\ store.shifts[i].date.ymd = it.date.ymd
        /\ store.shifts[i].shift_template_id =
              ApplyTemplate(store.templates, it.shift_type).id }

\* the staff assigned to a shift, one element per assignment row
AssignedTo(store, shift_id) ==
    LET Of(a) == a.shift = shift_id
        rows == SelectSeq(store.assignments, Of)
    IN  [i \in 1..Len(rows) |-> rows[i].staff]

(***************************************************************************)
(* C27: after an application without errors every 'optimized' entry has      *)
(* exactly one Shift for its date and the first template of its type, with   *)
(* exactly the listed staff assigned; a second application creates no Shift, *)
(* counts every optimized entry as updated and leaves the same shifts and    *)
(* (staff, shift) pairs; shifts that belong to no optimized entry are not    *)
(* created, removed or reassigned.                                           *)
(***************************************************************************)
C27_ApplyIdempotent ==
    [][ /\ result'.success =>
              \A it \in OptimizedItems :
                 /\ Cardinality(ShiftsOfItem(db', it)) = 1
                 /\ LET i == CHOOSE j \in ShiftsOfItem(db', it) : TRUE
                        listed == [k \in 1..Len(it.shift_data.assigned_staff) |->
                                      it.shift_data.assigned_staff[k].staff_id]
                    IN  AssignedTo(db', db'.shifts[i].id) = listed
        /\ (pc = "applied" /\ result.success) =>
              /\ result'.success
              /\ result'.created_shifts = 0
              /\ result'.updated_shifts = Cardinality(OptimizedItems)
              /\ db'.shifts = db.shifts
              /\ Range(db'.assignments) = Range(db.assignments)
              /\ Len(db'.assignments) = Len(db.assignments)
        /\ \A i \in 1..Len(db'.shifts) :
              (\A it \in OptimizedItems : i \notin ShiftsOfItem(db', it)) =>
                 /\ i <= Len(db.shifts)
                 /\ db.shifts[i] = db'.shifts[i]
                 /\ AssignedTo(db', db'.shifts[i].id) = AssignedTo(db, db.shifts[i].id)
        /\ Len(db'.shifts) >= Len(db.shifts)
      ]_vars

\* a second application without errors of a schedule whose first application
\* updated the persisted Monday shift and created another
C27_Witness ==
    /\ pc = "reapplied"
    /\ result.success
    /\ result.updated_shifts >= 2
    /\ Len(db.shifts) >= 2
    /\ Len(db.assignments) >= 2
    /\ shifts_data # <<>>
    /\ \E i \in 1..Len(shifts_data) : shifts_data[i].id = 1

(***************************************************************************)
(* Two runs of generate_smart_week_schedule in one process, each on its own  *)
(* SmartSchedulerAI instance for its own facility.  The run that executes    *)
(* owns the scheduler variables; the attributes and locals of a run that     *)
(* waits are kept in runs.saved.  A run executes alone when no step of       *)
(* another run falls between its steps: each facility is first scheduled     *)
(* alone, then the two runs "a" and "b" are interleaved step by step.        *)
(***************************************************************************)
AloneRuns == <<"alone_a", "alone_b">>
ConcurrentRuns == {"a", "b"}

\* the run that schedules the facility of run r alone
AloneOf(r) == IF r = "a" THEN AloneRuns[1] ELSE AloneRuns[2]

\* the rows load_data reads for one facility (its queries filter by
\* self.facility_id): one active staff member, the three templates, no shift
PairDbStates ==
    { d \in DbStates :
        /\ Len(d.staff) = 1
        /\ Len(d.templates) = Len(shift_types)
        /\ \A i \in 1..Len(d.templates) : d.templates[i].required_staff_count = MaxRequired
        /\ d.shifts = <<>>
        /\ d.assignments = <<>> }

\* the attributes of an instance after __init__, with the rows of its
\* facility and the argument of its run
Constructed(rows, date) ==
    [db |-> rows, target_date |-> date,
     staff_data |-> "None", templates_data |-> "None",
     shifts_data |-> "None", assignments_data |-> "None",
     pc |-> "start", week_dates |-> <<>>, analysis |-> <<>>, schedule |-> <<>>,
     day_schedule |-> <<>>, day_staff_assignments |-> {}, day_index |-> 0,
     shift_index |-> 0, available_staff |-> <<>>, sort_keys |-> <<>>,
     result |-> <<>>]

\* the attributes and locals of the run that executes
Executing ==
    [db |-> db, target_date |-> target_date,
     staff_data |-> staff_data, templates_data |-> templates_data,
     shifts_data |-> shifts_data, assignments_data |-> assignments_data,
     pc |-> pc, week_dates |-> week_dates, analysis |-> analysis,
     schedule |-> schedule, day_schedule |-> day_schedule,
     day_staff_assignments |-> day_staff_assignments, day_index |-> day_index,
     shift_index |-> shift_index, available_staff |-> available_staff,
     sort_keys |-> sort_keys, result |-> result]

\* the four data lists kept on the class: every instance sees the lists that
\* were assigned last
InstanceAttributes_OnClass(own, executing) ==
    [own EXCEPT !.staff_data = executing.staff_data,
                !.templates_data = executing.templates_data,
                !.shifts_data = executing.shifts_data,
                !.assignments_data = executing.assignments_data]

\* what a run finds when it goes on: __init__ assigns the four data lists to
\* self, and the rest are locals of its own calls
InstanceAttributes(own, executing) == own

\* the state of run r
RunState(r) == IF runs.current = r THEN Executing ELSE runs.saved[r]

InitPair ==
    /\ \E rows_a \in PairDbStates, rows_b \in PairDbStates :
          /\ db = rows_a
          /\ runs = [current |-> AloneRuns[1],
                     saved |-> [r \in {AloneRuns[2]} \cup ConcurrentRuns |->
                                   Constructed(IF r = "a" THEN rows_a ELSE rows_b,
                                               CHOOSE t \in TargetDates : TRUE)]]
    /\ target_date \in TargetDates
    /\ staff_data = "None"
    /\ templates_data = "None"
    /\ shifts_data = "None"
    /\ assignments_data = "None"
    /\ pc = "start"
    /\ week_dates = <<>>
    /\ analysis = <<>>
    /\ schedule = <<>>
    /\ day_schedule = <<>>
    /\ day_staff_assignments = {}
    /\ day_index = 0
    /\ shift_index = 0
    /\ available_staff = <<>>
    /\ sort_keys = <<>>
    /\ result = <<>>
    /\ NoEngine

\* the interpreter passes control to another run.  A run that executes alone
\* is left when it has returned; between the two concurrent runs control
\* passes after any step.
SwitchRun ==
    /\ \E r \in DOMAIN runs.saved :
          /\ \/ /\ runs.current = AloneRuns[1]
                /\ pc = "done"
                /\ r = AloneRuns[2]
             \/ /\ runs.current = AloneRuns[2]
                /\ pc = "done"
                /\ r \in ConcurrentRuns
             \/ /\ runs.current \in ConcurrentRuns
                /\ r \in ConcurrentRuns
          /\ LET next == InstanceAttributes(runs.saved[r], Executing)
             IN  /\ db' = next.db
                 /\ target_date' = next.target_date
                 /\ staff_data' = next.staff_data
                 /\ templates_data' = next.templates_data
                 /\ shifts_data' = next.shifts_data
                 /\ assignments_data' = next.assignments_data
                 /\ pc' = next.pc
                 /\ week_dates' = next.week_dates
                 /\ analysis' = next.analysis
                 /\ schedule' = next.schedule
                 /\ day_schedule' = next.day_schedule
                 /\ day_staff_assignments' = next.day_staff_assignments
                 /\ day_index' = next.day_index
                 /\ shift_index' = next.shift_index
                 /\ available_staff' = next.available_staff
                 /\ sort_keys' = next.sort_keys
                 /\ result' = next.result
          /\ runs' = [current |-> r,
                      saved |-> [q \in (DOMAIN runs.saved \ {r}) \cup {runs.current} |->
                                    IF q = runs.current THEN Executing
                                    ELSE runs.saved[q]]]
    /\ UNCHANGED engine_vars

NextPair == Next \/ SwitchRun

SpecPair == InitPair /\ [][NextPair]_vars

(***************************************************************************)
(* C25: under every interleaving of the steps of two runs on separate        *)
(* instances, a run that has returned has returned the result (the schedule  *)
(* or the error) that the run of its facility returned when it executed      *)
(* alone, and a step of one run changes nothing of the other run.            *)
(***************************************************************************)
C25_SameAsAlone ==
    \A r \in ConcurrentRuns :
        /\ RunState(AloneOf(r)).pc = "done" \/ RunState(r).pc = "start"
        /\ RunState(r).pc = "done" => RunState(r).result = RunState(AloneOf(r)).result
        /\ RunState(r).db = RunState(AloneOf(r)).db

\* run "a" has returned a schedule while run "b", of a facility with other
\* staff, is in the middle of its week
C25_Witness ==
    /\ runs.current = "a"
    /\ pc = "done"
    /\ result.success
    /\ runs.saved["b"].pc = "schedule"
    /\ runs.saved["b"].day_index = 4
    /\ runs.saved["b"].schedule # SubSeq(result.schedule, 1, 3)
    /\ runs.saved["b"].staff_data # staff_data

====
